---- MODULE Spec2Model ----
(***************************************************************************)
(* HackTrack: the GitHub ingestion core (core/github_analyzer.py).         *)
(*                                                                         *)
(* One GitHubAnalyzer instance talks to one upstream repository.  Every    *)
(* HTTP request of the analyzer is one step; between two steps the         *)
(* upstream may gain commits, disappear or come back.  What the server     *)
(* may answer (error statuses, network failures, rate-limit headers, blob  *)
(* bodies) is a parameter `env` of the actions, so that each              *)
(* specification states the environment it is checked against.            *)
(***************************************************************************)
EXTENDS Integers, Sequences, FiniteSets, TLC

\* ---------------------------------------------------------------- bounds
\* Most commits the upstream branch ever holds.
MaxCommits == 3
\* The commits of the long history that the progress of a walk over more
\* than five pages is checked on.
LongHistory == 11
\* The cycles a worker is started for.
MaxCycles == 2
\* The timer ticks of one monitoring session, and the workers started in
\* one run of the application.
MaxTicks == 3
MaxRuns == 3
\* Most commits of the upstream while the window is monitored.
MonitorCommits == 1
\* Commits per page.  The code asks for per_page=100 (github_analyzer.py:338);
\* the model scales the page down so that walks over several pages happen.
PerPage == 2

\* ------------------------------------------------------------- optionals
\* Optional[x]: None is the empty set, a value v is {v}.
None == {}

Some(v) == {v}

IsNone(o) == o = {}

TheValue(o) == CHOOSE v \in o : TRUE

\* ------------------------------------------------------------- sequences
RECURSIVE Reverse(_)
Reverse(s) == IF s = <<>> THEN <<>> ELSE Append(Reverse(Tail(s)), Head(s))

Range(s) == {s[i] : i \in 1..Len(s)}

Min(a, b) == IF a <= b THEN a ELSE b

Max(a, b) == IF a >= b THEN a ELSE b

\* The decimal number a header text (a sequence of digits) spells: int(text).
RECURSIVE ParseInt(_)
ParseInt(digits) ==
    IF digits = <<>> THEN 0
    ELSE 10 * ParseInt(SubSeq(digits, 1, Len(digits) - 1)) + digits[Len(digits)]

\* ------------------------------------------------- the upstream repository
\* SHAs are numbered in commit order: commit k is the k-th commit pushed.
Shas == 1..MaxCommits

\* The default branch of the upstream repository.  It is not "main", so the
\* fallback of analyze_commit_history (line 297) is visible.
DefaultBranch == "trunk"

\* Bytes of blob contents: NUL, newline, the letter a, and a byte that is no
\* valid UTF-8 (dropped by decode(errors="ignore")).
Bytes == {"NUL", "NL", "a", "bad"}

\* Blob contents by blob SHA (content-addressed: one content per SHA).
BlobMainPy == "b_main_py"
BlobLogo == "b_logo_png"
BlobEmpty == "b_empty"
BlobNul == "b_nul"
BlobBig == "b_big"

BlobShas == {BlobMainPy, BlobLogo, BlobEmpty, BlobNul, BlobBig}

\* A file of 1024 letters, then a NUL byte, a newline and a letter.
BigBytes == [i \in 1..1024 |-> "a"] \o <<"NUL", "NL", "a">>

BlobBytes(blob_sha) ==
    CASE blob_sha = BlobMainPy -> <<"a", "NL", "bad", "a">>
      [] blob_sha = BlobLogo   -> <<"NUL", "a", "NL">>
      [] blob_sha = BlobEmpty  -> <<>>
      [] blob_sha = BlobNul    -> <<"a", "NL", "NUL", "NL">>
      [] blob_sha = BlobBig    -> BigBytes

\* The recursive trees the upstream serves, by commit.
TreeA == << [type |-> "blob", path |-> [stem |-> "main", ext |-> ".py"], sha |-> BlobMainPy] >>

TreeB == << [type |-> "tree", path |-> [stem |-> "src", ext |-> ""], sha |-> "t_src"],
            [type |-> "blob", path |-> [stem |-> "src/main", ext |-> ".py"], sha |-> BlobMainPy],
            [type |-> "blob", path |-> [stem |-> "src/__init__", ext |-> ".py"], sha |-> BlobEmpty] >>

TreeC == << [type |-> "blob", path |-> [stem |-> "logo", ext |-> ".PNG"], sha |-> BlobLogo],
            [type |-> "blob", path |-> [stem |-> "data", ext |-> ".dat"], sha |-> BlobNul],
            [type |-> "blob", path |-> [stem |-> "src/__init__", ext |-> ".py"], sha |-> BlobEmpty] >>

TreeD == << [type |-> "blob", path |-> [stem |-> "logo", ext |-> ".PNG"], sha |-> BlobLogo],
            [type |-> "blob", path |-> [stem |-> "big", ext |-> ".txt"], sha |-> BlobBig] >>

Trees == <<TreeA, TreeB, TreeC, TreeD>>

TreeOf(sha) == Trees[((sha - 1) % Len(Trees)) + 1]

\* The branch listing of the upstream, newest first: commit n, ..., commit 1.
\* A branch other than the default branch does not exist.
Listing(n) == [i \in 1..n |-> n + 1 - i]

\* ------------------------------------------------------- pure helpers
\* _is_binary_content: a NUL byte within the first ChunkSize bytes.
ChunkSize == 1024

\* Mutant of IsBinaryContent: the whole content is searched for a NUL byte.
IsBinaryContentAnywhere(content) ==
    IF content = <<>> THEN FALSE
    ELSE \E i \in 1..Len(content) : content[i] = "NUL"

IsBinaryContent(content) ==
    IF content = <<>> THEN FALSE
    ELSE \E i \in 1..Min(Len(content), ChunkSize) : content[i] = "NUL"

\* bytes.decode("utf-8", errors="ignore"): undecodable bytes are dropped.
IsDecodable(b) == b # "bad"

DecodeIgnore(content) == SelectSeq(content, IsDecodable)

\* content_str.count('\n'), plus one when the text does not end with '\n'.
IsNewline(b) == b = "NL"

CountLines(content_str) ==
    IF content_str = <<>> THEN 0
    ELSE LET newlines == Len(SelectSeq(content_str, IsNewline))
         IN  IF content_str[Len(content_str)] # "NL" THEN newlines + 1 ELSE newlines

\* str.lower() on the extensions the trees use and on the words of a URL.
Lower(ext) ==
    CASE ext = ".PNG"       -> ".png"
      [] ext = ".XLSM"      -> ".xlsm"
      [] ext = "GitHub.com" -> "github.com"
      [] ext = "HTTP"       -> "http"
      [] OTHER              -> ext

binary_extensions ==
    {".png", ".jpg", ".jpeg", ".gif", ".ico", ".webp", ".bmp", ".tiff",
     ".pdf", ".zip", ".gz", ".tar", ".exe", ".dll", ".bin", ".pyc",
     ".mp3", ".mp4", ".wav", ".avi", ".ttf", ".otf", ".woff", ".woff2",
     ".ds_store", ".sqlite", ".db"}

code_extensions ==
    {".py", ".js", ".ts", ".html", ".css", ".c", ".cpp", ".h", ".hpp",
     ".java", ".json", ".yaml", ".yml", ".md", ".txt", ".sh", ".bat"}

IsBinary(path) ==
    LET ext == Lower(path.ext)
    IN  IF ext \in code_extensions THEN FALSE ELSE ext \in binary_extensions

\* requests' raise_for_status: 4xx and 5xx raise HTTPError.
RaisesForStatus(status) == status >= 400 /\ status < 600

\* Mutant of UpdateField: the field is assigned headers.get(...) as it is, so
\* an absent header makes it unknown.
UpdateFieldClobbers(old, header) ==
    IF ~IsNone(header) THEN Some(ParseInt(TheValue(header))) ELSE None

\* _update_rate_limit on one tracker field: the header's number when the
\* header is present, the old value otherwise.
UpdateField(old, header) ==
    IF ~IsNone(header) THEN Some(ParseInt(TheValue(header))) ELSE old

\* _format_languages: "Name (P%)" by size, largest first; an empty mapping
\* formats to the empty text.  A mapping is a sequence of <<name, size>> in
\* the order the API lists it; P is size / total * 100 rounded half to even.
RECURSIVE SumSizes(_)
SumSizes(data) == IF data = <<>> THEN 0 ELSE data[1][2] + SumSizes(Tail(data))

RoundHalfEven(num, den) ==
    LET q == num \div den
        r == num % den
    IN  IF 2 * r < den THEN q
        ELSE IF 2 * r > den THEN q + 1
        ELSE IF q % 2 = 0 THEN q ELSE q + 1

\* sorted(..., key=size, reverse=True): stable, so ties keep the API order.
RECURSIVE InsertBySize(_, _)
InsertBySize(sorted, item) ==
    IF sorted = <<>> THEN <<item>>
    ELSE IF sorted[1][2] >= item[2] THEN <<sorted[1]>> \o InsertBySize(Tail(sorted), item)
    ELSE <<item>> \o sorted

RECURSIVE SortBySize(_)
SortBySize(data) ==
    IF data = <<>> THEN <<>>
    ELSE InsertBySize(SortBySize(SubSeq(data, 1, Len(data) - 1)), data[Len(data)])

FormatLanguages(data) ==
    IF data = <<>> THEN <<>>
    ELSE LET total == SumSizes(data)
             sorted == SortBySize(data)
         IN  [i \in 1..Len(sorted) |->
                [lang |-> sorted[i][1],
                 pct  |-> IF total # 0 THEN RoundHalfEven(sorted[i][2] * 100, total) ELSE 0]]

\* What GET /languages answers for the upstream repository.
UpstreamLanguages == << <<"JavaScript", 100>>, <<"Python", 300>> >>

\* ----------------------------------------------------- parse_repo_from_url
\* A text is a sequence of characters in which a word (a name, a host, the
\* ".git" suffix, the "git@" prefix) is kept whole: no operation of the
\* resolver cuts inside one.
RECURSIVE LStrip(_, _)
LStrip(text, chars) ==
    IF text # <<>> /\ Head(text) \in chars THEN LStrip(Tail(text), chars) ELSE text

RECURSIVE RStrip(_, _)
RStrip(text, chars) ==
    IF text # <<>> /\ text[Len(text)] \in chars
    THEN RStrip(SubSeq(text, 1, Len(text) - 1), chars)
    ELSE text

StripChars(text, chars) == RStrip(LStrip(text, chars), chars)

\* text.split(sep): the pieces between the occurrences of sep.
RECURSIVE Split(_, _)
Split(text, sep) ==
    LET hits == {i \in 1..Len(text) : text[i] = sep}
    IN  IF hits = {} THEN <<text>>
        ELSE LET i == CHOOSE h \in hits : \A j \in hits : h <= j
             IN  <<SubSeq(text, 1, i - 1)>> \o Split(SubSeq(text, i + 1, Len(text)), sep)

\* [s for s in pieces if s]
IsNonEmpty(text) == text # <<>>

\* text.replace(" ", " ")
ReplaceNbsp(text) == [i \in 1..Len(text) |-> IF text[i] = "NBSP" THEN " " ELSE text[i]]

\* repo.removesuffix(".git")
RemoveSuffixGit(text) ==
    IF text # <<>> /\ text[Len(text)] = ".git" THEN SubSeq(text, 1, Len(text) - 1) ELSE text

\* The pair (owner, repo) the resolver carries from branch to branch; an
\* unset or empty name is the empty text.
Pair(owner, repo) == [owner |-> owner, repo |-> repo]

NoPair == Pair(<<>>, <<>>)

HasBoth(p) == p.owner # <<>> /\ p.repo # <<>>

\* The SSH branch (lines 26-33): the path after the first colon.
SshPair(raw) ==
    LET parts == Split(raw, ":")
    IN  IF Len(parts) >= 2
        THEN LET path == SubSeq(raw, Len(parts[1]) + 2, Len(raw))
                 owner_repo == Split(LStrip(path, {"/"}), "/")
             IN  IF Len(owner_repo) >= 2 THEN Pair(owner_repo[1], owner_repo[2]) ELSE NoPair
        ELSE NoPair

\* re.match(r"^https?://", raw, flags=re.IGNORECASE)
HasScheme(raw) ==
    /\ Len(raw) >= 4
    /\ Lower(raw[1]) \in {"http", "https"}
    /\ raw[2] = ":" /\ raw[3] = "/" /\ raw[4] = "/"

\* urlparse(...): the network location runs from the "//" of the scheme
\* to the next slash, the path from that slash on.
UrlParse(raw) ==
    LET rest == IF HasScheme(raw) THEN SubSeq(raw, 5, Len(raw)) ELSE raw
        netloc == Split(rest, "/")[1]
    IN  [netloc |-> netloc, path |-> SubSeq(rest, Len(netloc) + 1, Len(rest))]

\* urlsplit raises ValueError("Invalid IPv6 URL") on a network location
\* with one square bracket but not the other.
UrlParseRaises(raw) ==
    LET netloc == UrlParse(raw).netloc
        has(ch) == \E i \in 1..Len(netloc) : netloc[i] = ch
    IN  has("[") # has("]")

\* The URL branch (lines 35-40): a host that contains github.com and at
\* least two non-empty path segments.
UrlPair(raw) ==
    LET parsed == UrlParse(raw)
        host == [i \in 1..Len(parsed.netloc) |-> Lower(parsed.netloc[i])]
        segments == SelectSeq(Split(LStrip(parsed.path, {"/"}), "/"), IsNonEmpty)
    IN  IF (\E i \in 1..Len(host) : host[i] = "github.com") /\ Len(segments) >= 2
        THEN Pair(segments[1], segments[2])
        ELSE NoPair

\* The length of the longest run of [^/\s] that starts at position from.
RECURSIVE RunLen(_, _)
RunLen(text, from) ==
    IF from > Len(text) \/ text[from] \in {"/", " "} THEN 0
    ELSE 1 + RunLen(text, from + 1)

\* The length of the longest run of [/:] that starts at position from.
RECURSIVE SepLen(_, _)
SepLen(text, from) ==
    IF from > Len(text) \/ text[from] \notin {"/", ":"} THEN 0
    ELSE 1 + SepLen(text, from + 1)

\* github\.com[/:]+([^/\s]+)/([^/\s]+) tried at position i with k
\* separators: the two groups, or no match.
MatchAt(text, i, k) ==
    LET g1 == RunLen(text, i + k + 1)
        slash == i + k + 1 + g1
        g2 == RunLen(text, slash + 1)
    IN  IF g1 >= 1 /\ slash <= Len(text) /\ text[slash] = "/" /\ g2 >= 1
        THEN Pair(SubSeq(text, i + k + 1, slash - 1), SubSeq(text, slash + 1, slash + g2))
        ELSE NoPair

\* re.search of that pattern (lines 45-47): the leftmost match, the run of
\* separators as long as a match allows.
SearchGithub(text) ==
    LET tries == {t \in (1..Len(text)) \X (1..Len(text)) :
                     /\ Lower(text[t[1]]) = "github.com"
                     /\ t[2] <= SepLen(text, t[1] + 1)
                     /\ HasBoth(MatchAt(text, t[1], t[2]))}
    IN  IF tries = {} THEN NoPair
        ELSE LET t == CHOOSE u \in tries :
                         \A v \in tries : u[1] < v[1] \/ (u[1] = v[1] /\ u[2] >= v[2])
             IN  MatchAt(text, t[1], t[2])

\* Bare owner/repo (lines 50-54): a slash and no space.
BarePair(raw) ==
    IF (\E i \in 1..Len(raw) : raw[i] = "/") /\ ~(\E i \in 1..Len(raw) : raw[i] = " ")
    THEN LET parts == Split(LStrip(raw, {"/"}), "/")
         IN  IF Len(parts) >= 2 THEN Pair(parts[1], parts[2]) ELSE NoPair
    ELSE NoPair

\* Each fallback runs when owner and repo are not both set, and assigns
\* both names only when it finds them.
OrElse(p, q) == IF HasBoth(p) THEN p ELSE IF q = NoPair THEN p ELSE q

\* parse_repo_from_url: kind "pair" with the owner and the repo, "none"
\* for None, "raise" when urlparse raised ValueError.
parse_repo_from_url(url) ==
    LET stripped == StripChars(StripChars(StripChars(ReplaceNbsp(url), {" "}), {"'", "\""}),
                               {"<", ">", "[", "]", "(", ")", "{", "}", " "})
        raw == Split(Split(stripped, "?")[1], "#")[1]
        is_ssh == raw # <<>> /\ raw[1] = "git@"
    IN  IF stripped = <<>> THEN [kind |-> "none", owner |-> <<>>, repo |-> <<>>]
        ELSE IF ~is_ssh /\ UrlParseRaises(raw) THEN [kind |-> "raise", owner |-> <<>>, repo |-> <<>>]
        ELSE LET first == IF is_ssh THEN SshPair(raw) ELSE UrlPair(raw)
                 found == OrElse(OrElse(first, SearchGithub(raw)), BarePair(raw))
                 repo == RStrip(RemoveSuffixGit(found.repo), {".", ",", ";", ":", ")"})
             IN  IF found.owner # <<>> /\ repo # <<>>
                 THEN [kind |-> "pair", owner |-> found.owner, repo |-> repo]
                 ELSE [kind |-> "none", owner |-> <<>>, repo |-> <<>>]

\* The written forms of a repository's address that reach the resolver
\* (the "GitHub Repo URL" cell of a submission), for an owner o and a
\* repository r.
HttpsUrl(o, r) == <<"https", ":", "/", "/", "github.com", "/", o, "/", r>>

HttpsGitUrl(o, r) == HttpsUrl(o, r) \o <<".git">>

SshUrl(o, r) == <<"git@", "github.com", ":", o, "/", r, ".git">>

BareName(o, r) == <<o, "/", r>>

\* HTTP://GitHub.com/o/r/
ShoutedUrl(o, r) == <<"HTTP", ":", "/", "/", "GitHub.com", "/", o, "/", r, "/">>

\* https://github.com/o/r/tree/main?tab=readme
DeepUrl(o, r) == HttpsUrl(o, r) \o <<"/", "tree", "/", "main", "?", "tab">>

\* A URL copied with its wrapping: <https://github.com/o/r> after a
\* no-break space.
WrappedUrl(o, r) == <<"NBSP", "<">> \o HttpsUrl(o, r) \o <<">">>

\* "see https://github.com/o/r now"
UrlInProse(o, r) == <<"see", " ">> \o HttpsUrl(o, r) \o <<" ", "now">>

\* "see https://github.com/o/r."
UrlEndingSentence(o, r) == <<"see", " ">> \o HttpsUrl(o, r) \o <<".">>

\* "see https://github.com/o/r.git, now"
GitUrlInProse(o, r) == <<"see", " ">> \o HttpsGitUrl(o, r) \o <<",", " ", "now">>

\* "https://github.com/o/r now"
UrlThenProse(o, r) == HttpsUrl(o, r) \o <<" ", "now">>

\* "see github.com/o/r now"
HostInProse(o, r) == <<"see", " ", "github.com", "/", o, "/", r, " ", "now">>

\* "[see](https://github.com/o/r)"
MarkdownLink(o, r) == <<"[", "see", "]", "(">> \o HttpsUrl(o, r) \o <<")">>

WrittenForms(o, r) ==
    {HttpsUrl(o, r), HttpsGitUrl(o, r), SshUrl(o, r), BareName(o, r),
     ShoutedUrl(o, r), DeepUrl(o, r), WrappedUrl(o, r),
     UrlInProse(o, r), UrlEndingSentence(o, r), GitUrlInProse(o, r),
     UrlThenProse(o, r), HostInProse(o, r), MarkdownLink(o, r)}

\* Texts that name no GitHub repository.
OtherTexts ==
    {<<>>, <<" ">>, <<"'", "'">>, <<"see">>, <<"see", " ", "now">>,
     <<"octo", "/">>, <<"https", ":", "/", "/", "github.com", "/", "octo">>,
     <<"https", ":", "/", "/", "gitlab.com", "/", "octo", "/", "repo">>,
     <<"gitlab.com", "/", "octo", "/", "repo">>,
     <<"git@", "gitlab.com", ":", "octo", "/", "repo", ".git">>,
     <<"see", " ", "gitlab.com", "/", "octo", "/", "repo">>}

Owners == {"octo", "my-org"}

Repos == {"repo", "site.js"}

RepoUrls == UNION {WrittenForms(o, r) : o \in Owners, r \in Repos} \cup OtherTexts

\* The repository the upstream holds, and the address the cycles use for it.
UpstreamRepo == Pair(<<"octo">>, <<"repo">>)

RepoUrl == HttpsUrl("octo", "repo")

\* ------------------------------------------------------------ the server
\* What the rate-limit endpoint may put in a 200 body (check_rate_limit):
\*   "core"     resources.core holds remaining and limit
\*   "rate"     resources.core is empty, the older "rate" object holds them
\*   "unusable" neither object holds anything
\*   "invalid"  the body is no JSON object: resp.json() or data.get raises
QuotaFields == ("remaining" :> 59) @@ ("limit" :> 60)

NoFields == [k \in {} |-> 0]

CheckBody(kind) ==
    CASE kind = "core"     -> [json_ok |-> TRUE,  core |-> QuotaFields, rate |-> NoFields]
      [] kind = "rate"     -> [json_ok |-> TRUE,  core |-> NoFields,    rate |-> QuotaFields]
      [] kind = "unusable" -> [json_ok |-> TRUE,  core |-> NoFields,    rate |-> NoFields]
      [] kind = "invalid"  -> [json_ok |-> FALSE, core |-> NoFields,    rate |-> NoFields]

\* dict.get(key): the value, or None when the key is missing.
DictGet(d, key) == IF key \in DOMAIN d THEN Some(d[key]) ELSE None

\* The rate-limit headers of one response: each present (a text of digits)
\* or absent.
NoHeaders == [remaining |-> None, limit |-> None]

RateHeaders ==
    [remaining : {None, Some(<<5, 8>>)}, limit : {None, Some(<<5, 0, 0, 0>>)}]

\* The environments the specifications are checked against: the error
\* statuses the server may answer with, whether the network may fail,
\* the rate-limit headers it may send, and what a blob's 200 body may be:
\*   "content"   the blob's true content, base64
\*   "nocontent" the "content" field is missing or empty
\*   "badb64"    the field is no valid base64
\*   "badjson"   the body is no JSON
FullEnv ==
    [errors |-> {403, 500}, netfail |-> TRUE, headers |-> RateHeaders,
     blob_bodies |-> {"content", "nocontent", "badb64", "badjson"},
     check_bodies |-> {"core", "rate", "unusable", "invalid"}]

QuietEnv ==
    [errors |-> {}, netfail |-> FALSE, headers |-> {NoHeaders},
     blob_bodies |-> {"content"},
     check_bodies |-> {"core"}]

\* The responses to one request: the status says whether the resource is
\* there unless the server answers with an error; or no response at all.
NetFail == [net |-> "fail", status |-> 0, remaining |-> None, limit |-> None, body |-> "none"]

Responses(ok_statuses, bodies, env) ==
    UNION {{[net |-> "ok", status |-> s, remaining |-> h.remaining, limit |-> h.limit, body |-> b] :
              h \in env.headers, b \in (IF s = 200 THEN bodies ELSE {"none"})} :
           s \in ok_statuses \cup env.errors}
    \cup (IF env.netfail THEN {NetFail} ELSE {})

Found(present) == IF present THEN {200} ELSE {404}

\* ------------------------------------------------------------------ state
VARIABLES
    history,             \* upstream: the default branch's SHAs, newest first
    repo_exists,         \* upstream: whether the repository is there
    requests_remaining,  \* analyzer: self.requests_remaining (Optional[int])
    requests_limit,      \* analyzer: self.requests_limit (Optional[int])
    blob_cache,          \* analyzer: self._blob_cache, blob SHA -> line count
    call,                \* the running analyze_commit_history call: its locals
    resp,                \* the last HTTP exchange of the analyzer and who handled it
    blob_fetches,        \* blob requests issued per blob SHA (counted up to 2)
    upstream_changed,    \* whether the upstream changed since the call began
    prev,                \* when the caller repeated the call that had just returned:
                         \* the SHAs that call returned, whether the upstream held still
    sheets,              \* the output spreadsheet: per team worksheet, the rows under
                         \* the header row
    worker,              \* the cycle worker (AnalyzeWorker) started last: its position,
                         \* the submissions it read, the terminal signals it emitted
    scheduler,           \* the Scheduler: interval, countdown, whether its timer runs,
                         \* and what it emitted since start()
    window               \* the MainWindow and its dashboard: flags, the reference to
                         \* the current worker, the worker signals not handled yet

vars == <<history, repo_exists, requests_remaining, requests_limit, blob_cache,
          call, resp, blob_fetches, upstream_changed, prev, sheets, worker,
          scheduler, window>>

upstream == <<history, repo_exists>>

tracker == <<requests_remaining, requests_limit>>

\* The locals of a call that has not started.
NoCall ==
    [pc |-> "new", repo_url |-> <<>>, owner |-> <<>>, repo |-> <<>>,
     known_shas |-> {}, branch |-> "", languages |-> <<>>,
     readme_present |-> FALSE, total_commits |-> 0,
     page |-> 0, commits |-> <<>>, ci |-> 0, results |-> <<>>,
     tree |-> <<>>, ti |-> 0, total_files |-> 0, total_lines |-> 0,
     blob_sha |-> "", lines |-> 0,
     progress_cb |-> TRUE, progress |-> <<>>, nreq |-> 0, snapshot |-> None, error |-> None]

NoResp == [via |-> "none", net |-> "none", status |-> 0,
           remaining |-> None, limit |-> None, body |-> "none"]

Handled(via, r) ==
    [via |-> via, net |-> r.net, status |-> r.status,
     remaining |-> r.remaining, limit |-> r.limit, body |-> r.body]

\* The worksheets before the first cycle, and a worker that does not run.
Teams == {"alpha", "beta"}

NoSheets == [team \in Teams |-> <<>>]

NoWorker == [pc |-> "off", k |-> 0, subs |-> <<>>, signals |-> <<>>,
             error |-> None, cycle |-> 0]

\* Scheduler.__init__ (scheduler.py:14-20): the timer does not run.  `shown`
\* is the last value of the `tick` signal, `ticks` the timer timeouts since
\* start() and `triggers` the timeouts at which `triggered` was emitted
\* since start() (0 for the emission of start() itself).
NoScheduler == [interval_seconds |-> 0, countdown |-> 0, active |-> FALSE,
                shown |-> 0, ticks |-> 0, triggers |-> <<>>]

\* MainWindow.__init__ (main_window.py:139-166) and Dashboard.__init__:
\* not monitoring, not busy, no worker.  `current` says whether
\* self._current_worker refers to the worker started last (it is None
\* otherwise); `delivered` whether the terminal signal of that worker has
\* been handled; `stale` holds the terminal signals of earlier workers that
\* wait in the event queue; `dialog` says whether the "Run failed" box is
\* open; `orphans` counts the workers that still run although a later one
\* has been started.
NoWindow == [monitoring |-> FALSE, busy |-> FALSE, excel |-> [stem |-> "", ext |-> ""], interval |-> 0,
             current |-> FALSE, delivered |-> FALSE, stale |-> <<>>,
             dialog |-> FALSE, orphans |-> 0]

\* GitHubAnalyzer.__init__ up to the rate-limit check (lines 55-57).
Init ==
    /\ history \in {Listing(n) : n \in 0..MaxCommits}
    /\ repo_exists \in BOOLEAN
    /\ requests_remaining = None
    /\ requests_limit = None
    /\ blob_cache = [b \in {} |-> 0]
    /\ call = NoCall
    /\ resp = NoResp
    /\ blob_fetches = [b \in BlobShas |-> 0]
    /\ upstream_changed = FALSE
    /\ prev = None
    /\ sheets = NoSheets
    /\ worker = NoWorker
    /\ scheduler = NoScheduler
    /\ window = NoWindow

\* --------------------------------------------------------- the upstream
\* A commit is pushed to the default branch.
Push ==
    /\ Len(history) < MaxCommits
    /\ history' = <<Len(history) + 1>> \o history
    /\ upstream_changed' = TRUE
    /\ UNCHANGED <<repo_exists, tracker, blob_cache, call, resp, blob_fetches, prev>>
    /\ UNCHANGED <<sheets, worker, scheduler, window>>

\* The repository is deleted or made private.
DeleteRepo ==
    /\ repo_exists
    /\ repo_exists' = FALSE
    /\ upstream_changed' = TRUE
    /\ UNCHANGED <<history, tracker, blob_cache, call, resp, blob_fetches, prev>>
    /\ UNCHANGED <<sheets, worker, scheduler, window>>

\* The repository comes back.
RestoreRepo ==
    /\ ~repo_exists
    /\ repo_exists' = TRUE
    /\ upstream_changed' = TRUE
    /\ UNCHANGED <<history, tracker, blob_cache, call, resp, blob_fetches, prev>>
    /\ UNCHANGED <<sheets, worker, scheduler, window>>

\* The commits of one page of a branch listing (per_page, page).
PageOf(listing, page) ==
    SubSeq(listing, (page - 1) * PerPage + 1, Min(page * PerPage, Len(listing)))

\* ------------------------------------------------- the HTTP API client
\* _update_rate_limit after a response; a request that got no response
\* raised inside requests.get, before the tracker is touched.
Receive(via, r) ==
    /\ requests_remaining' =
          IF r.net = "ok" THEN UpdateField(requests_remaining, r.remaining)
          ELSE requests_remaining
    /\ requests_limit' =
          IF r.net = "ok" THEN UpdateField(requests_limit, r.limit)
          ELSE requests_limit
    /\ resp' = Handled(via, r)

\* Mutant of Raises: only 5xx statuses raise.
RaisesOnServerErrorsOnly(r) == r.net = "fail" \/ r.status >= 500

\* Mutant of Raises: the 404 test is missing, so a 404 raises like any 4xx.
RaisesAlsoOn404(r) == r.net = "fail" \/ RaisesForStatus(r.status)

\* _get_json and _get: a 404 is returned as absent, any other 4xx/5xx raises,
\* and so does a request that got no response.
Raises(r) == r.net = "fail" \/ (r.status # 404 /\ RaisesForStatus(r.status))

IsAbsent(r) == r.net = "ok" /\ r.status = 404

ErrorOf(r) ==
    IF r.net = "fail" THEN [kind |-> "ConnectionError", status |-> 0]
    ELSE [kind |-> "HTTPError", status |-> r.status]

\* The exception leaves analyze_commit_history: no snapshot is returned.
Fail(c, r) == [c EXCEPT !.pc = "failed", !.error = Some(ErrorOf(r))]

\* if progress_cb: progress_cb("fetch", pct, ...)
Progress(c, pct) == IF c.progress_cb THEN [c EXCEPT !.progress = Append(@, pct)] ELSE c

\* ------------------------------------------- the worker's error boundary
\* AnalyzeWorker.run (main_window.py:39-44): the run ends with `failed`
\* and the message of the exception, or with `finished` (line 109).
Ended(w, signal, error) ==
    [w EXCEPT !.pc = "ended", !.signals = Append(@, signal), !.error = error]

\* Mutant of Caught: the exception of the analysis is dropped.
CaughtSilently(w, c) == w

\* An exception that leaves analyze_commit_history while the worker waits
\* for its snapshot (line 79) reaches the except clause of run.
Caught(w, c) ==
    IF w.pc = "analyze" /\ c.pc = "failed" THEN Ended(w, "failed", c.error) ELSE w

\* ------------------------------------------------------ check_rate_limit
\* Mutant of CheckRateLimitFields: the body is read whatever the status, so
\* a non-200 response leaves both fields unknown unless a header sets them.
CheckRateLimitFieldsIgnoresStatus(old_remaining, old_limit, r) ==
    IF r.net = "fail" \/ (r.status = 200 /\ ~CheckBody(r.body).json_ok)
    THEN [remaining |-> old_remaining, limit |-> old_limit]
    ELSE LET core == IF r.status # 200 THEN NoFields
                     ELSE IF DOMAIN CheckBody(r.body).core = {} THEN CheckBody(r.body).rate
                     ELSE CheckBody(r.body).core
         IN  [remaining |-> UpdateField(DictGet(core, "remaining"), r.remaining),
              limit |-> UpdateField(DictGet(core, "limit"), r.limit)]

\* The tracker after check_rate_limit handled r.  An exception (no response,
\* or a 200 body that is no JSON object) skips the rest of the try block.
CheckRateLimitFields(old_remaining, old_limit, r) ==
    IF r.net = "fail" \/ (r.status = 200 /\ ~CheckBody(r.body).json_ok)
    THEN [remaining |-> old_remaining, limit |-> old_limit]
    ELSE LET data == CheckBody(r.body)
             core == IF DOMAIN data.core = {} THEN data.rate ELSE data.core
             remaining == IF r.status = 200 THEN DictGet(core, "remaining") ELSE old_remaining
             limit == IF r.status = 200 THEN DictGet(core, "limit") ELSE old_limit
         IN  [remaining |-> UpdateField(remaining, r.remaining),
              limit |-> UpdateField(limit, r.limit)]

\* check_rate_limit, called by the constructor (line 59) and by any caller
\* between two analyses.
CheckRateLimit(env) ==
    /\ call.pc \in {"new", "idle", "done", "failed"}
    /\ \E r \in Responses({200}, env.check_bodies, env) :
          LET t == CheckRateLimitFields(requests_remaining, requests_limit, r)
          IN  /\ requests_remaining' = t.remaining
              /\ requests_limit' = t.limit
              /\ resp' = Handled("check_rate_limit", r)
    /\ call' = IF call.pc = "new" THEN [call EXCEPT !.pc = "idle"] ELSE call
    /\ UNCHANGED <<upstream, blob_cache, blob_fetches, upstream_changed, prev>>
    /\ UNCHANGED <<sheets, worker, scheduler, window>>

\* ------------------------------------------------ analyze_commit_history
\* The SHAs of a list of CommitEntry, in order.
ShasOf(entries) == [i \in 1..Len(entries) |-> entries[i].sha]

\* Mutant of Begin: the result of the resolver is not tested, and the
\* requests go out for whatever names it left.
BeginUnchecked(repo_url, known) ==
    LET parsed == parse_repo_from_url(repo_url)
    IN  [NoCall EXCEPT !.pc = "meta", !.repo_url = repo_url, !.known_shas = known,
                       !.owner = parsed.owner, !.repo = parsed.repo]

\* The head of analyze_commit_history (lines 291-294): the locals of the
\* call once the URL is resolved, or the ValueError it raises at once.
Begin(repo_url, known) ==
    LET parsed == parse_repo_from_url(repo_url)
    IN  IF parsed.kind # "pair"
        THEN [NoCall EXCEPT !.pc = "failed", !.repo_url = repo_url, !.known_shas = known,
                            !.error = Some([kind |-> "ValueError", status |-> 0])]
        ELSE [NoCall EXCEPT !.pc = "meta", !.repo_url = repo_url, !.known_shas = known,
                            !.owner = parsed.owner, !.repo = parsed.repo]

\* The call begins.
StartAnalysis(repo_url, known) ==
    /\ call.pc \in {"idle", "done", "failed"}
    /\ call' = Begin(repo_url, known)
    /\ prev' = None
    /\ upstream_changed' = FALSE
    /\ UNCHANGED <<upstream, tracker, blob_cache, resp, blob_fetches>>
    /\ UNCHANGED <<sheets, worker, scheduler, window>>

\* The call begins without a progress callback (progress_cb=None).
StartAnalysisNoCallback(repo_url, known) ==
    /\ call.pc \in {"idle", "done", "failed"}
    /\ call' = [Begin(repo_url, known) EXCEPT !.progress_cb = FALSE]
    /\ prev' = None
    /\ upstream_changed' = FALSE
    /\ UNCHANGED <<upstream, tracker, blob_cache, resp, blob_fetches>>
    /\ UNCHANGED <<sheets, worker, scheduler, window>>

\* The caller repeats the call that has just returned, with the same
\* known-SHA set.
CallAgain ==
    /\ call.pc = "done"
    /\ call' = Begin(call.repo_url, call.known_shas)
    /\ prev' = Some([shas |-> ShasOf(call.results), stable |-> ~upstream_changed])
    /\ upstream_changed' = FALSE
    /\ UNCHANGED <<upstream, tracker, blob_cache, resp, blob_fetches>>
    /\ UNCHANGED <<sheets, worker, scheduler, window>>

\* Whether the repository the call asks for is there: the upstream holds
\* one repository, any other owner/repo is a 404.
RepoThere(c) == repo_exists /\ Pair(c.owner, c.repo) = UpstreamRepo

\* Whether the branch the call lists is there.
BranchExists(c) == RepoThere(c) /\ c.branch = DefaultBranch

\* meta.get("default_branch", "main") if meta else "main"
BranchOf(r) == IF IsAbsent(r) THEN "main" ELSE DefaultBranch

\* _repo_metadata and the branch (lines 296-299).
RepoMetadata(env) ==
    /\ call.pc = "meta"
    /\ \E r \in Responses(Found(RepoThere(call)), {"json"}, env) :
          /\ Receive("_get_json", r)
          /\ call' = LET c == [call EXCEPT !.nreq = @ + 1]
                     IN  IF Raises(r) THEN Fail(c, r)
                         ELSE Progress([c EXCEPT !.branch = BranchOf(r),
                                                 !.pc = "languages"], 20)
    /\ UNCHANGED <<upstream, blob_cache, blob_fetches, upstream_changed, prev>>
    /\ UNCHANGED <<sheets, scheduler, window>>
    /\ worker' = Caught(worker, call')

\* _languages: the mapping, or an empty one when absent.
LanguagesOf(r) == IF IsAbsent(r) THEN <<>> ELSE UpstreamLanguages

\* _languages and _format_languages (lines 301-302).
Languages(env) ==
    /\ call.pc = "languages"
    /\ \E r \in Responses(Found(RepoThere(call)), {"json"}, env) :
          /\ Receive("_get_json", r)
          /\ call' = LET c == [call EXCEPT !.nreq = @ + 1]
                     IN  IF Raises(r) THEN Fail(c, r)
                         ELSE [c EXCEPT !.languages = FormatLanguages(LanguagesOf(r)),
                                        !.pc = "readme"]
    /\ UNCHANGED <<upstream, blob_cache, blob_fetches, upstream_changed, prev>>
    /\ UNCHANGED <<sheets, scheduler, window>>
    /\ worker' = Caught(worker, call')

\* _has_readme (line 303): requests.get is not guarded, status 200 means
\* present.  A repository that is there may or may not hold a README.
HasReadme(env) ==
    /\ call.pc = "readme"
    /\ \E r \in Responses(IF RepoThere(call) THEN {200, 404} ELSE {404}, {"json"}, env) :
          /\ Receive("_has_readme", r)
          /\ call' = LET c == [call EXCEPT !.nreq = @ + 1]
                     IN  IF r.net = "fail" THEN Fail(c, r)
                         ELSE [c EXCEPT !.readme_present = (r.status = 200),
                                        !.pc = "count"]
    /\ UNCHANGED <<upstream, blob_cache, blob_fetches, upstream_changed, prev>>
    /\ UNCHANGED <<sheets, scheduler, window>>
    /\ worker' = Caught(worker, call')

\* The Link header of a one-commit-per-page listing of n commits: absent
\* when there is a single page, else the links to the next and the last
\* page, each a URL with its query parameters and its rel.
LinkTo(page, rel) ==
    [rel |-> rel, query |-> <<[key |-> "per_page", value |-> 1],
                              [key |-> "page", value |-> page]>>]

LinkHeader(n) == IF n >= 2 THEN <<LinkTo(2, "next"), LinkTo(n, "last")>> ELSE <<>>

\* Mutant of PageParam: the pattern lacks [?&], so per_page matches too.
PageParamUnanchored(query) ==
    LET hits == {i \in 1..Len(query) : query[i].key \in {"page", "per_page"}}
    IN  IF hits = {} THEN None
        ELSE Some(query[CHOOSE i \in hits : \A j \in hits : i <= j].value)

\* re.search(r"[?&]page=(\d+)", part): the first parameter named page.
PageParam(query) ==
    LET hits == {i \in 1..Len(query) : query[i].key = "page"}
    IN  IF hits = {} THEN None
        ELSE Some(query[CHOOSE i \in hits : \A j \in hits : i <= j].value)

\* The page number of the first rel="last" part that carries one
\* (lines 216-223).
LastPage(link) ==
    LET hits == {i \in 1..Len(link) :
                    link[i].rel = "last" /\ ~IsNone(PageParam(link[i].query))}
    IN  IF hits = {} THEN None
        ELSE PageParam(link[CHOOSE i \in hits : \A j \in hits : i <= j].query)

\* _commit_count on a response that did not raise: 0 when absent, the last
\* page of the Link header, else 1 when the body lists a commit.
CommitCountOf(r, n) ==
    IF r.status = 404 THEN 0
    ELSE IF ~IsNone(LastPage(LinkHeader(n))) THEN TheValue(LastPage(LinkHeader(n)))
    ELSE IF n >= 1 THEN 1 ELSE 0

\* _commit_count (lines 304-306).
CommitCount(env) ==
    /\ call.pc = "count"
    /\ \E r \in Responses(Found(BranchExists(call)), {"json"}, env) :
          /\ Receive("_get", r)
          /\ call' = LET c == [call EXCEPT !.nreq = @ + 1]
                     IN  IF Raises(r) THEN Fail(c, r)
                         ELSE Progress([c EXCEPT !.total_commits = CommitCountOf(r, Len(history)),
                                                 !.page = 1, !.pc = "page"], 50)
    /\ UNCHANGED <<upstream, blob_cache, blob_fetches, upstream_changed, prev>>
    /\ UNCHANGED <<sheets, scheduler, window>>
    /\ worker' = Caught(worker, call')

\* ---------------------------------------------------- _fetch_new_commits
\* Mutant of Return: the accumulated list is returned as collected, newest
\* first (results.reverse() forgotten).
ReturnUnreversed(c) ==
    LET d == Progress(c, 100)
    IN  [d EXCEPT !.pc = "done",
                  !.snapshot = Some([branch |-> c.branch,
                                     total_commits_at_snapshot |-> c.total_commits,
                                     languages |-> c.languages,
                                     readme_present |-> c.readme_present,
                                     commits |-> c.results])]

\* results.reverse() and the snapshot of analyze_commit_history
\* (lines 392-394 and 309-325; the timestamp is left out).
Return(c) ==
    LET new_commits == Reverse(c.results)
        d == Progress(c, 100)
    IN  [d EXCEPT !.pc = "done",
                  !.results = new_commits,
                  !.snapshot = Some([branch |-> c.branch,
                                     total_commits_at_snapshot |-> c.total_commits,
                                     languages |-> c.languages,
                                     readme_present |-> c.readme_present,
                                     commits |-> new_commits])]

\* Mutant of PagePercent: the pages count up from zero.
PagePercentFromZero(page) == Min(95, page * 10)

\* min(95, 50 + page * 10) (line 386)
PagePercent(page) == Min(95, 50 + page * 10)

\* Mutant of EndOfPage: paging ends after the first page that held commits.
EndOfPageStops(c, stop) == Return(Progress(c, PagePercent(c.page)))

\* Mutant of EndOfPage: the stop flag is not looked at, the page is turned.
EndOfPageTurns(c, stop) ==
    LET d == Progress(c, PagePercent(c.page))
    IN  [d EXCEPT !.page = @ + 1, !.pc = "page"]

\* After the scan of a page (lines 385-390): progress, then stop or turn the page.
EndOfPage(c, stop) ==
    LET d == Progress(c, PagePercent(c.page))
    IN  IF stop THEN Return(d) ELSE [d EXCEPT !.page = @ + 1, !.pc = "page"]

\* Mutant of IsKnown: the known-SHA set is never consulted.
IsKnownNever(sha, known_shas) == FALSE

\* if sha in known_shas (line 347)
IsKnown(sha, known_shas) == sha \in known_shas

\* Mutant of Scan: the known-SHA set is consulted on the first page only.
ScanFirstPageOnly(c) ==
    IF c.ci > Len(c.commits) THEN EndOfPage(c, FALSE)
    ELSE IF c.page = 1 /\ IsKnown(c.commits[c.ci], c.known_shas) THEN EndOfPage(c, TRUE)
    ELSE [c EXCEPT !.pc = "tree"]

\* The scan of the page from commits[ci] on (lines 343-349), up to the next
\* commit whose tree has to be requested.  Every listed commit carries its
\* SHA, so the blank-SHA guard of line 345 never skips one.
Scan(c) ==
    IF c.ci > Len(c.commits) THEN EndOfPage(c, FALSE)
    ELSE IF IsKnown(c.commits[c.ci], c.known_shas) THEN EndOfPage(c, TRUE)
    ELSE [c EXCEPT !.pc = "tree"]

\* results.append(CommitEntry(...)) (lines 376-383), then the next commit.
AppendCommit(c) ==
    Scan([c EXCEPT !.results = Append(@, [sha |-> c.commits[c.ci],
                                          total_lines |-> c.total_lines,
                                          total_files |-> c.total_files]),
                   !.ci = @ + 1])

\* The walk over tree["tree"] from item ti on (lines 365-374), up to the
\* next blob that _get_line_count has to request; a cached blob is answered
\* from the cache (lines 129-130).
RECURSIVE WalkTree(_, _)
WalkTree(c, cache) ==
    IF c.ti > Len(c.tree) THEN AppendCommit(c)
    ELSE LET item == c.tree[c.ti]
         IN  IF item.type = "blob"
             THEN LET d == [c EXCEPT !.total_files = @ + 1]
                  IN  IF ~IsBinary(item.path)
                      THEN IF item.sha \in DOMAIN cache
                           THEN WalkTree([d EXCEPT !.blob_sha = item.sha,
                                                   !.lines = cache[item.sha],
                                                   !.total_lines = @ + cache[item.sha],
                                                   !.ti = @ + 1], cache)
                           ELSE [d EXCEPT !.pc = "blob"]
                      ELSE WalkTree([d EXCEPT !.ti = @ + 1], cache)
             ELSE WalkTree([c EXCEPT !.ti = @ + 1], cache)

\* _commits_page (lines 205-208): the page, or nothing when absent.
CommitsOf(r, listing, page) == IF IsAbsent(r) THEN <<>> ELSE PageOf(listing, page)

\* One turn of the while loop: request page `page` (lines 338-340).
CommitsPage(env) ==
    /\ call.pc = "page"
    /\ \E r \in Responses(Found(BranchExists(call)), {"json"}, env) :
          /\ Receive("_get_json", r)
          /\ call' = LET c == [call EXCEPT !.nreq = @ + 1]
                         commits == CommitsOf(r, history, call.page)
                     IN  IF Raises(r) THEN Fail(c, r)
                         ELSE IF commits = <<>> THEN Return(c)
                         ELSE Scan([c EXCEPT !.commits = commits, !.ci = 1])
    /\ UNCHANGED <<upstream, blob_cache, blob_fetches, upstream_changed, prev>>
    /\ UNCHANGED <<sheets, scheduler, window>>
    /\ worker' = Caught(worker, call')

\* _get_tree for commits[ci] (lines 361-365): no tree when absent.
GetTree(env) ==
    /\ call.pc = "tree"
    /\ \E r \in Responses(Found(RepoThere(call)), {"json"}, env) :
          /\ Receive("_get_json", r)
          /\ call' = LET c == [call EXCEPT !.nreq = @ + 1]
                     IN  IF Raises(r) THEN Fail(c, r)
                         ELSE WalkTree([c EXCEPT !.total_files = 0, !.total_lines = 0,
                                                 !.tree = IF IsAbsent(r) THEN <<>>
                                                          ELSE TreeOf(call.commits[call.ci]),
                                                 !.ti = 1], blob_cache)
    /\ UNCHANGED <<upstream, blob_cache, blob_fetches, upstream_changed, prev>>
    /\ UNCHANGED <<sheets, scheduler, window>>
    /\ worker' = Caught(worker, call')

\* Mutant of FetchedLineCount: the status test is missing, so the content
\* of a response that is not a 200 is counted as well.
FetchedLineCountIgnoresStatus(r, blob_sha) ==
    IF r.net = "fail" \/ r.body = "badjson"
    THEN [lines |-> 0, cached |-> FALSE]
    ELSE LET content_bytes == BlobBytes(blob_sha)
         IN  IF r.body = "nocontent" \/ content_bytes = <<>>
             THEN [lines |-> 0, cached |-> FALSE]
             ELSE IF r.body = "badb64" THEN [lines |-> 0, cached |-> FALSE]
             ELSE IF IsBinaryContent(content_bytes) THEN [lines |-> 0, cached |-> TRUE]
             ELSE [lines |-> CountLines(DecodeIgnore(content_bytes)), cached |-> TRUE]

\* _get_line_count after a cache miss (lines 132-172): the line count it
\* returns and whether it stored it in the cache.
FetchedLineCount(r, blob_sha) ==
    IF r.net = "fail" \/ r.status # 200 \/ r.body = "badjson"
    THEN [lines |-> 0, cached |-> FALSE]
    ELSE LET content_bytes == BlobBytes(blob_sha)
         IN  IF r.body = "nocontent" \/ content_bytes = <<>>
             THEN [lines |-> 0, cached |-> FALSE]
             ELSE IF r.body = "badb64" THEN [lines |-> 0, cached |-> FALSE]
             ELSE IF IsBinaryContent(content_bytes) THEN [lines |-> 0, cached |-> TRUE]
             ELSE [lines |-> CountLines(DecodeIgnore(content_bytes)), cached |-> TRUE]

\* Mutant of CachePut: the cache is rebuilt around the new entry.
CachePutEvicting(cache, blob_sha, lines) == [b \in {blob_sha} |-> lines]

\* self._blob_cache[blob_sha] = lines
CachePut(cache, blob_sha, lines) ==
    [b \in DOMAIN cache \cup {blob_sha} |-> IF b = blob_sha THEN lines ELSE cache[b]]

\* _get_line_count on a cache miss: the blob request (lines 132-172), then
\* the rest of the tree.
GetBlob(env) ==
    /\ call.pc = "blob"
    /\ LET blob_sha == call.tree[call.ti].sha
       IN  \E r \in Responses(Found(RepoThere(call)), env.blob_bodies, env) :
              LET got == FetchedLineCount(r, blob_sha)
                  cache == IF got.cached THEN CachePut(blob_cache, blob_sha, got.lines)
                           ELSE blob_cache
              IN  /\ Receive("_get_line_count", r)
                  /\ blob_cache' = cache
                  /\ blob_fetches' = [blob_fetches EXCEPT ![blob_sha] = Min(@ + 1, 2)]
                  /\ call' = WalkTree([call EXCEPT !.nreq = @ + 1,
                                                   !.blob_sha = blob_sha,
                                                   !.lines = got.lines,
                                                   !.total_lines = @ + got.lines,
                                                   !.ti = @ + 1], cache)
    /\ UNCHANGED <<upstream, upstream_changed, prev>>
    /\ UNCHANGED <<sheets, scheduler, window>>
    /\ worker' = Caught(worker, call')

\* ------------------------------------------------------ the cycle worker
\* The texts of a worksheet's first column: str(i) for the serial number
\* of a data row, "-" in a separator row, "" in a blank row; and the text
\* of a commit SHA, which is none of these.
SnoText(i) == <<"sno", i>>

DashText == <<"dash", 0>>

BlankText == <<"blank", 0>>

ShaText(sha) == <<"sha", sha>>

\* A row of a worksheet: the first column, the commit that the date, time
\* and message columns describe (0 in a blank or separator row), and the
\* two totals.
BlankRow == [c1 |-> BlankText, commit |-> 0, total_lines |-> 0, total_files |-> 0]

SeparatorRow == [c1 |-> DashText, commit |-> 0, total_lines |-> 0, total_files |-> 0]

\* get_existing_commit_shas: the non-blank texts of column 1 under the header.
get_existing_commit_shas(sheet) == {sheet[i].c1 : i \in 1..Len(sheet)} \ {BlankText}

\* The known-SHA set the analyzer receives: it compares commit SHAs with
\* the texts of that set (github_analyzer.py:347).
KnownShas(existing) == {sha \in Shas : ShaText(sha) \in existing}

\* _snapshot_to_rows: one row per commit of the snapshot, numbered from 1.
snapshot_to_rows(snapshot) ==
    [i \in 1..Len(snapshot.commits) |->
        [c1 |-> SnoText(i), commit |-> snapshot.commits[i].sha,
         total_lines |-> snapshot.commits[i].total_lines,
         total_files |-> snapshot.commits[i].total_files]]

\* Mutant of NewRows: the rows are not compared with column 1.
NewRowsUnfiltered(rows, existing) == rows

\* [r for r in rows if r and r[0] and r[0] not in existing]
NewRows(rows, existing) == SelectSeq(rows, LAMBDA r : r.c1 \notin existing)

\* Mutant of append_commit_history_rows: the worksheet is cleared and
\* written anew.
append_rows_replacing(sheet, rows) ==
    IF rows = <<>> THEN <<BlankRow, SeparatorRow>> ELSE <<BlankRow>> \o rows

\* append_commit_history_rows: a blank row, then the rows or a separator.
append_commit_history_rows(sheet, rows) ==
    sheet \o (IF rows = <<>> THEN <<BlankRow, SeparatorRow>> ELSE <<BlankRow>> \o rows)

\* The submissions the workbook may hold: team name and repository URL.
Submission(team, url) == [team |-> team, url |-> url]

SubmissionLists ==
    {<<Submission("alpha", RepoUrl), Submission("beta", SshUrl("octo", "repo"))>>,
     <<Submission("alpha", RepoUrl), Submission("beta", <<"see">>)>>,
     <<Submission("alpha", <<" ">>), Submission("beta", RepoUrl), Submission("beta", RepoUrl)>>}

\* df.drop_duplicates(subset=[team, url], keep="last") (line 58)
DropDuplicates(subs) ==
    LET kept == {i \in 1..Len(subs) : \A j \in (i + 1)..Len(subs) : subs[j] # subs[i]}
        Nth(n) == CHOOSE i \in kept : Cardinality({j \in kept : j <= i}) = n
    IN  [n \in 1..Cardinality(kept) |-> subs[Nth(n)]]

\* str(row.get("GitHub Repo URL", "")).strip() (line 65)
StrippedUrl(sub) == StripChars(sub.url, {" ", "NBSP"})

\* The loop of _execute from row k on (lines 64-67): rows without a URL
\* are skipped; after the last row the run ends with `finished`.
RECURSIVE NextRow(_, _)
NextRow(subs, k) ==
    IF k > Len(subs) THEN k
    ELSE IF StrippedUrl(subs[k]) = <<>> THEN NextRow(subs, k + 1)
    ELSE k

Advance(w, k) ==
    LET n == NextRow(w.subs, k)
    IN  IF n > Len(w.subs) THEN Ended([w EXCEPT !.k = n], "finished", None)
        ELSE [w EXCEPT !.k = n, !.pc = "row"]

SheetsError == Some([kind |-> "SheetsError", status |-> 0])

ExcelError == Some([kind |-> "ExcelError", status |-> 0])

NoExcelPath == Some([kind |-> "ValueError", status |-> 0])

\* MainWindow._run_cycle starts a worker; _execute up to the construction
\* of its analyzer (lines 47-50): without a workbook path it raises.
StartCycle ==
    /\ worker.pc \in {"off", "ended"}
    /\ worker.cycle < MaxCycles
    /\ \E has_excel \in BOOLEAN :
          IF has_excel
          THEN /\ worker' = [NoWorker EXCEPT !.pc = "construct", !.cycle = worker.cycle + 1]
               /\ call' = NoCall
               /\ requests_remaining' = None
               /\ requests_limit' = None
               /\ blob_cache' = [b \in {} |-> 0]
               /\ blob_fetches' = [b \in BlobShas |-> 0]
               /\ resp' = NoResp
          ELSE /\ worker' = Ended([NoWorker EXCEPT !.cycle = worker.cycle + 1],
                                  "failed", NoExcelPath)
               /\ UNCHANGED <<call, tracker, blob_cache, blob_fetches, resp>>
    /\ UNCHANGED <<upstream, upstream_changed, prev, sheets, scheduler, window>>

\* GitHubAnalyzer() (line 50): the constructor's rate-limit check.
Construct(env) ==
    /\ worker.pc = "construct"
    /\ call.pc = "new"
    /\ CheckRateLimit(env)

\* read_excel and drop_duplicates (lines 56-59), then the first row.
ReadExcel ==
    /\ worker.pc = "construct"
    /\ call.pc = "idle"
    /\ \E subs \in SubmissionLists, ok \in BOOLEAN :
          worker' = IF ok THEN Advance([worker EXCEPT !.subs = DropDuplicates(subs)], 1)
                    ELSE Ended(worker, "failed", ExcelError)
    /\ UNCHANGED <<upstream, tracker, blob_cache, call, resp, blob_fetches,
                   upstream_changed, prev, sheets, scheduler, window>>

\* The team's worksheet is opened and its first column read (lines 72-77),
\* then analyze_commit_history begins (line 79).
FetchKnown ==
    /\ worker.pc = "row"
    /\ LET sub == worker.subs[worker.k]
       IN  \E ok \in BOOLEAN :
              IF ok
              THEN /\ call' = Begin(StrippedUrl(sub),
                                    KnownShas(get_existing_commit_shas(sheets[sub.team])))
                   /\ worker' = IF call'.pc = "failed"
                                THEN Ended(worker, "failed", call'.error)
                                ELSE [worker EXCEPT !.pc = "analyze"]
                   /\ prev' = None
                   /\ upstream_changed' = FALSE
              ELSE /\ worker' = Ended(worker, "failed", SheetsError)
                   /\ UNCHANGED <<call, prev, upstream_changed>>
    /\ UNCHANGED <<upstream, tracker, blob_cache, resp, blob_fetches, sheets,
                   scheduler, window>>

\* The snapshot is turned into rows and the rows that column 1 does not
\* hold yet are appended (lines 91-98), then the next row.
Persist ==
    /\ worker.pc = "analyze"
    /\ call.pc = "done"
    /\ LET team == worker.subs[worker.k].team
           rows == snapshot_to_rows(TheValue(call.snapshot))
           existing == get_existing_commit_shas(sheets[team])
       IN  \E ok \in BOOLEAN :
              IF ok
              THEN /\ sheets' = [sheets EXCEPT ![team] =
                                   append_commit_history_rows(@, NewRows(rows, existing))]
                   /\ worker' = Advance(worker, worker.k + 1)
              ELSE /\ worker' = Ended(worker, "failed", SheetsError)
                   /\ UNCHANGED sheets
    /\ UNCHANGED <<upstream, tracker, blob_cache, call, resp, blob_fetches,
                   upstream_changed, prev, scheduler, window>>

\* The upstream gains a commit while no worker runs.
PushBetweenCycles ==
    /\ worker.pc \in {"off", "ended"}
    /\ Push

\* ---------------------------------------------- the scheduler and the window
\* safe_interval_hours (helpers.py:82-87) in tenths of an hour:
\* max(float(value), 0.1).
SafeIntervalTenths(value) == Max(10 * value, 1)

\* int(safe_interval_hours(hours) * 3600) (scheduler.py:23)
IntervalOf(hours) == (SafeIntervalTenths(hours) * 3600) \div 10

\* Scheduler.start (scheduler.py:22-27)
SchedulerStart(hours) ==
    [interval_seconds |-> IntervalOf(hours), countdown |-> 0, active |-> TRUE,
     shown |-> 0, ticks |-> 0, triggers |-> <<0>>]

\* Scheduler.stop (scheduler.py:29-32)
SchedulerStop(sch) == [sch EXCEPT !.active = FALSE, !.countdown = 0, !.shown = 0]

\* Scheduler._on_tick and _emit_tick (scheduler.py:34-43)
OnTick(sch) ==
    IF sch.countdown <= 0
    THEN [sch EXCEPT !.countdown = sch.interval_seconds,
                     !.shown = Max(sch.interval_seconds, 0),
                     !.ticks = @ + 1,
                     !.triggers = Append(@, sch.ticks + 1)]
    ELSE [sch EXCEPT !.countdown = @ - 1,
                     !.shown = Max(sch.countdown - 1, 0),
                     !.ticks = @ + 1]

\* Dashboard.interval_seconds (dashboard.py:223-228) and the settings of
\* the three spin boxes the user may start with.
IntervalSeconds(boxes) == Max(boxes.hours * 3600 + boxes.minutes * 60 + boxes.seconds, 1)

IntervalBoxes ==
    {[hours |-> 0, minutes |-> 0, seconds |-> 0],
     [hours |-> 0, minutes |-> 0, seconds |-> 2]}

\* The texts of the workbook field: empty, a workbook, a file that
\* is_valid_excel rejects; and whether a sheet URL is given.
NoPath == [stem |-> "", ext |-> ""]

ExcelPaths == {NoPath, [stem |-> "teams", ext |-> ".xlsx"],
               [stem |-> "teams", ext |-> ".XLSM"], [stem |-> "teams", ext |-> ".csv"]}

\* is_valid_excel (excel_manager.py:38-39)
IsValidExcel(path) == Lower(path.ext) \in {".xlsx", ".xlsm"}

\* self._current_worker and self._current_worker.isRunning()
IsRunning(win) == win.current /\ worker.pc \notin {"off", "ended"}

\* AnalyzeWorker(...).start() and the head of _execute (lines 47-50), as
\* in StartCycle: the new worker has an analyzer of its own.
StartWorker(excel_path) ==
    IF excel_path # NoPath
    THEN /\ worker' = [NoWorker EXCEPT !.pc = "construct", !.cycle = worker.cycle + 1]
         /\ call' = NoCall
         /\ requests_remaining' = None
         /\ requests_limit' = None
         /\ blob_cache' = [b \in {} |-> 0]
         /\ blob_fetches' = [b \in BlobShas |-> 0]
         /\ resp' = NoResp
    ELSE /\ worker' = Ended([NoWorker EXCEPT !.cycle = worker.cycle + 1],
                            "failed", NoExcelPath)
         /\ UNCHANGED <<call, tracker, blob_cache, blob_fetches, resp>>

\* MainWindow._run_cycle (main_window.py:193-208), the slot of `triggered`,
\* run inside the handler that emitted the signal: nothing happens while
\* the current worker runs, else a worker is started and becomes the
\* current one.  A worker that still runs but is not the current one runs
\* on; a terminal signal of the last worker that was not handled yet stays
\* in the event queue.  The workbook field read at line 197 holds the text
\* Start was pressed with.
RunCycle(win) ==
    IF IsRunning(win)
    THEN /\ window' = win
         /\ UNCHANGED <<worker, call, tracker, blob_cache, blob_fetches, resp>>
    ELSE /\ worker.cycle < MaxRuns
         /\ window' = [win EXCEPT
                !.busy = TRUE, !.current = TRUE, !.delivered = FALSE,
                !.orphans = IF worker.pc \notin {"off", "ended"} THEN @ + 1 ELSE @,
                !.stale = IF worker.pc = "ended" /\ ~win.delivered
                          THEN Append(@, worker.signals[1]) ELSE @]
         /\ StartWorker(win.excel)

\* MainWindow._handle_start (main_window.py:170-183): the Start button is
\* enabled while the dashboard is neither busy nor monitoring
\* (dashboard.py:215-217) and no modal box is open.
HandleStart ==
    /\ ~window.monitoring /\ ~window.busy /\ ~window.dialog
    /\ \E excel_path \in ExcelPaths, has_sheet_url \in BOOLEAN, boxes \in IntervalBoxes :
          IF \/ excel_path = NoPath /\ ~has_sheet_url
             \/ excel_path # NoPath /\ ~IsValidExcel(excel_path)
          THEN UNCHANGED <<scheduler, window, worker, call, tracker, blob_cache,
                           blob_fetches, resp>>
          ELSE /\ scheduler' = SchedulerStart(IntervalSeconds(boxes))
               /\ RunCycle([window EXCEPT !.monitoring = TRUE, !.busy = TRUE,
                                          !.excel = excel_path,
                                          !.interval = IntervalSeconds(boxes)])
    /\ UNCHANGED <<upstream, upstream_changed, prev, sheets>>

\* MainWindow._handle_stop (main_window.py:185-191): the Stop button is
\* enabled while the dashboard is monitoring.
HandleStop ==
    /\ window.monitoring /\ ~window.dialog
    /\ scheduler' = SchedulerStop(scheduler)
    /\ window' = [window EXCEPT !.monitoring = FALSE,
                                !.busy = IF IsRunning(window) THEN @ ELSE FALSE]
    /\ UNCHANGED <<upstream, upstream_changed, prev, sheets, worker, call, tracker,
                   blob_cache, blob_fetches, resp>>

\* The timer's timeout (scheduler.py:34-40), with the slot of `triggered`.
Tick ==
    /\ scheduler.active
    /\ scheduler.ticks < MaxTicks
    /\ scheduler' = OnTick(scheduler)
    /\ IF scheduler.countdown <= 0 THEN RunCycle(window)
       ELSE UNCHANGED <<window, worker, call, tracker, blob_cache, blob_fetches, resp>>
    /\ UNCHANGED <<upstream, upstream_changed, prev, sheets>>

\* The terminal signal the event loop of the window delivers next: worker
\* signals cross threads, so their slots run when the loop reaches them.
PendingSignal(win) ==
    IF win.stale # <<>> THEN Some(Head(win.stale))
    ELSE IF worker.pc = "ended" /\ ~win.delivered THEN Some(worker.signals[1])
    ELSE None

Consumed(win) ==
    IF win.stale # <<>> THEN [win EXCEPT !.stale = Tail(@)]
    ELSE [win EXCEPT !.delivered = TRUE]

\* MainWindow._on_finished (main_window.py:210-216)
OnFinished ==
    /\ PendingSignal(window) = Some("finished")
    /\ window' = [Consumed(window) EXCEPT !.busy = FALSE, !.current = FALSE]
    /\ UNCHANGED <<upstream, upstream_changed, prev, sheets, worker, call, tracker,
                   blob_cache, blob_fetches, resp, scheduler>>

\* MainWindow._on_failed up to QMessageBox.critical (main_window.py:218-223):
\* the box is modal and runs an event loop of its own, in which timeouts
\* and worker signals are handled while the box is open.
OnFailed ==
    /\ PendingSignal(window) = Some("failed")
    /\ ~window.dialog
    /\ window' = [Consumed(window) EXCEPT !.busy = FALSE, !.dialog = TRUE]
    /\ UNCHANGED <<upstream, upstream_changed, prev, sheets, worker, call, tracker,
                   blob_cache, blob_fetches, resp, scheduler>>

\* The user closes the box: the rest of _on_failed (main_window.py:224-226).
CloseDialog ==
    /\ window.dialog
    /\ window' = [window EXCEPT !.dialog = FALSE, !.current = FALSE]
    /\ UNCHANGED <<upstream, upstream_changed, prev, sheets, worker, call, tracker,
                   blob_cache, blob_fetches, resp, scheduler>>

\* A worker that is not the one started last ends its run (lines 39-44):
\* its terminal signal joins the event queue, behind the signal of the
\* last worker if that one has ended already.
OrphanEnds ==
    /\ window.orphans > 0
    /\ \E signal \in {"finished", "failed"} :
          window' = IF worker.pc = "ended" /\ ~window.delivered
                    THEN [window EXCEPT !.orphans = @ - 1, !.delivered = TRUE,
                                        !.stale = @ \o <<worker.signals[1], signal>>]
                    ELSE [window EXCEPT !.orphans = @ - 1, !.stale = Append(@, signal)]
    /\ UNCHANGED <<upstream, upstream_changed, prev, sheets, worker, call, tracker,
                   blob_cache, blob_fetches, resp, scheduler>>

\* ------------------------------------------------------- specifications
\* An environment whose server may fail in every way but sends no
\* rate-limit headers, and one that sends them and may fail too.
FaultEnv ==
    [errors |-> {403, 500}, netfail |-> TRUE, headers |-> {NoHeaders},
     blob_bodies |-> {"content", "nocontent", "badb64", "badjson"},
     check_bodies |-> {"core"}]

RateEnv ==
    [errors |-> {403}, netfail |-> TRUE, headers |-> RateHeaders,
     blob_bodies |-> {"content"},
     check_bodies |-> {"core", "rate", "unusable", "invalid"}]

\* The pager: any known-SHA set, a well-behaved server, and an upstream
\* that gains commits, disappears and comes back while the analyzer runs.
Next ==
    \/ CheckRateLimit(QuietEnv)
    \/ \E known \in SUBSET Shas : StartAnalysis(RepoUrl, known)
    \/ RepoMetadata(QuietEnv)
    \/ Languages(QuietEnv)
    \/ HasReadme(QuietEnv)
    \/ CommitCount(QuietEnv)
    \/ CommitsPage(QuietEnv)
    \/ GetTree(QuietEnv)
    \/ GetBlob(QuietEnv)
    \/ Push
    \/ DeleteRepo
    \/ RestoreRepo

Spec == Init /\ [][Next]_vars

\* Error handling: full fetches against a server that answers with error
\* statuses, drops requests and garbles blob bodies, while the repository
\* disappears and comes back.
NextFaults ==
    \/ CheckRateLimit(FaultEnv)
    \/ StartAnalysis(RepoUrl, {})
    \/ RepoMetadata(FaultEnv)
    \/ Languages(FaultEnv)
    \/ HasReadme(FaultEnv)
    \/ CommitCount(FaultEnv)
    \/ CommitsPage(FaultEnv)
    \/ GetTree(FaultEnv)
    \/ GetBlob(FaultEnv)
    \/ DeleteRepo
    \/ RestoreRepo

SpecFaults == Init /\ [][NextFaults]_vars

\* Rate-limit bookkeeping: every response may carry either header.
NextRate ==
    \/ CheckRateLimit(RateEnv)
    \/ StartAnalysis(RepoUrl, {})
    \/ RepoMetadata(RateEnv)
    \/ Languages(RateEnv)
    \/ HasReadme(RateEnv)
    \/ CommitCount(RateEnv)
    \/ CommitsPage(RateEnv)
    \/ GetTree(RateEnv)
    \/ GetBlob(RateEnv)

SpecRate == Init /\ [][NextRate]_vars

\* An exhausted quota: every response says that no request remains, and
\* the server may reject any request with a 403.
QuotaEnv ==
    [errors |-> {403}, netfail |-> FALSE,
     headers |-> {[remaining |-> Some(<<0>>), limit |-> Some(<<5, 0, 0, 0>>)]},
     blob_bodies |-> {"content"},
     check_bodies |-> {"core"}]

NextQuota ==
    \/ CheckRateLimit(QuotaEnv)
    \/ StartAnalysis(RepoUrl, {})
    \/ RepoMetadata(QuotaEnv)
    \/ Languages(QuotaEnv)
    \/ HasReadme(QuotaEnv)
    \/ CommitCount(QuotaEnv)
    \/ CommitsPage(QuotaEnv)
    \/ GetTree(QuotaEnv)
    \/ GetBlob(QuotaEnv)

SpecQuota == Init /\ [][NextQuota]_vars

\* Repeated calls of the pager with one known-SHA set, while the upstream
\* may gain commits.
NextTwice ==
    \/ CheckRateLimit(QuietEnv)
    \/ \E known \in SUBSET Shas : StartAnalysis(RepoUrl, known)
    \/ CallAgain
    \/ RepoMetadata(QuietEnv)
    \/ Languages(QuietEnv)
    \/ HasReadme(QuietEnv)
    \/ CommitCount(QuietEnv)
    \/ CommitsPage(QuietEnv)
    \/ GetTree(QuietEnv)
    \/ GetBlob(QuietEnv)
    \/ Push

SpecTwice == Init /\ [][NextTwice]_vars

\* A stable upstream and a full fetch.  The call is synchronous and every
\* request ends (a response, or the request timeout), so a call that has a
\* next step takes it.
Step ==
    \/ RepoMetadata(QuietEnv)
    \/ Languages(QuietEnv)
    \/ HasReadme(QuietEnv)
    \/ CommitCount(QuietEnv)
    \/ CommitsPage(QuietEnv)
    \/ GetTree(QuietEnv)
    \/ GetBlob(QuietEnv)

NextStable ==
    \/ CheckRateLimit(QuietEnv)
    \/ StartAnalysis(RepoUrl, {})
    \/ Step

SpecStable == Init /\ [][NextStable]_vars /\ WF_vars(Step)

\* The resolver: calls with every written form of an address, against a
\* well-behaved server and an upstream that holds still.
NextResolve ==
    \/ CheckRateLimit(QuietEnv)
    \/ \E repo_url \in RepoUrls : StartAnalysis(repo_url, {})
    \/ Step

SpecResolve == Init /\ [][NextResolve]_vars

\* Progress: calls with and without a progress callback over a history of
\* more than five pages, from any low-water mark.
InitLong ==
    /\ history = Listing(LongHistory)
    /\ repo_exists \in BOOLEAN
    /\ requests_remaining = None
    /\ requests_limit = None
    /\ blob_cache = [b \in {} |-> 0]
    /\ call = NoCall
    /\ resp = NoResp
    /\ blob_fetches = [b \in BlobShas |-> 0]
    /\ upstream_changed = FALSE
    /\ prev = None
    /\ sheets = NoSheets
    /\ worker = NoWorker
    /\ scheduler = NoScheduler
    /\ window = NoWindow

LowWaterMarks == {{}} \cup {{sha} : sha \in 1..LongHistory}

NextLong ==
    \/ CheckRateLimit(QuietEnv)
    \/ \E known \in LowWaterMarks : StartAnalysis(RepoUrl, known)
    \/ \E known \in LowWaterMarks : StartAnalysisNoCallback(RepoUrl, known)
    \/ Step

SpecLong == InitLong /\ [][NextLong]_vars

\* Cycles: the worker analyses the submissions one after the other and
\* persists each snapshot, against a server that may answer 500 and a
\* spreadsheet service that may fail; the upstream grows between cycles.
CycleEnv ==
    [errors |-> {500}, netfail |-> FALSE, headers |-> {NoHeaders},
     blob_bodies |-> {"content"},
     check_bodies |-> {"core"}]

WorkerStep ==
    \/ Construct(CycleEnv)
    \/ ReadExcel
    \/ FetchKnown
    \/ RepoMetadata(CycleEnv)
    \/ Languages(CycleEnv)
    \/ HasReadme(CycleEnv)
    \/ CommitCount(CycleEnv)
    \/ CommitsPage(CycleEnv)
    \/ GetTree(CycleEnv)
    \/ GetBlob(CycleEnv)
    \/ Persist

NextCycles ==
    \/ StartCycle
    \/ WorkerStep
    \/ PushBetweenCycles

SpecCycles == Init /\ [][NextCycles]_vars

\* A worker that has a step takes it: the run is a thread of its own and
\* every request it waits for ends.
SpecCyclesFair == SpecCycles /\ WF_vars(WorkerStep)

\* Monitoring: the user starts and stops, the timer ticks, the worker runs
\* against a well-behaved server and its signals reach the window.
InitMonitor == Init /\ repo_exists /\ Len(history) <= MonitorCommits

NextMonitor ==
    \/ HandleStart
    \/ HandleStop
    \/ Tick
    \/ OnFinished
    \/ OnFailed
    \/ CloseDialog
    \/ OrphanEnds
    \/ Construct(QuietEnv)
    \/ ReadExcel
    \/ FetchKnown
    \/ Step
    \/ Persist

SpecMonitor == InitMonitor /\ [][NextMonitor]_vars

\* ================================================================ claims
\* What the upstream lists for the default branch: nothing when the
\* repository is absent.
Upstream == IF repo_exists THEN history ELSE <<>>

\* The commits of a listing that precede its first known SHA.
BeforeFirstKnown(listing, known) ==
    LET hits == {i \in 1..Len(listing) : listing[i] \in known}
    IN  IF hits = {} THEN listing
        ELSE SubSeq(listing, 1, (CHOOSE i \in hits : \A j \in hits : i <= j) - 1)

\* The number of pages of a listing that hold at least one commit.
FullPages(listing) == (Len(listing) + PerPage - 1) \div PerPage

\* C1: at every moment of a call, whatever the upstream does meanwhile, no
\* commit the pager has collected, and no commit of the snapshot it returns,
\* has a SHA of the caller's known-SHA set.
C1_NoKnownShaReturned ==
    /\ \A i \in 1..Len(call.results) : call.results[i].sha \notin call.known_shas
    /\ \A snap \in call.snapshot :
          \A i \in 1..Len(snap.commits) : snap.commits[i].sha \notin call.known_shas

\* C1 witness: the known SHA sat on the second page of a listing that grew
\* during the call, and the call returned the two commits before it.
C1_Witness ==
    /\ call.pc = "done" /\ upstream_changed /\ repo_exists
    /\ call.known_shas = {1} /\ call.page = 2
    /\ ShasOf(call.results) = <<2, 3>>

\* C2: a call that returned while the upstream held still returned exactly
\* the commits listed before the first known SHA, oldest first (the reverse
\* of the listing order); all commits when no listed SHA is known.
C2_ReturnsNewPrefixOldestFirst ==
    (call.pc = "done" /\ ~upstream_changed) =>
        /\ ShasOf(call.results) = Reverse(BeforeFirstKnown(Upstream, call.known_shas))
        /\ ShasOf(TheValue(call.snapshot).commits) = ShasOf(call.results)

\* C2 witness: the walk crossed a page, stopped at the known SHA on the
\* second page and returned the two newer commits oldest first.
C2_Witness ==
    /\ call.pc = "done" /\ ~upstream_changed /\ repo_exists
    /\ history = <<3, 2, 1>> /\ call.known_shas = {1} /\ call.page = 2
    /\ ShasOf(TheValue(call.snapshot).commits) = <<2, 3>>

\* Two calls in a row with one known-SHA set, no upstream change between
\* or during them, and the second has returned.
TwoQuietCalls ==
    /\ call.pc = "done" /\ ~upstream_changed
    /\ prev # None /\ TheValue(prev).stable

\* C3 as claimed: two calls in a row with the same known-SHA set and no new
\* upstream commits both return an empty list.
C3_Claimed ==
    TwoQuietCalls => (TheValue(prev).shas = <<>> /\ call.results = <<>>)

\* The known-SHA set is up to date: it holds the newest listed SHA, or
\* nothing is listed.
KnownIsCurrent == Upstream = <<>> \/ Head(Upstream) \in call.known_shas

\* C3 amended: two such calls return the same list, and that list is empty
\* exactly when the known-SHA set holds the newest upstream SHA or the
\* upstream lists no commit.
C3_SameListEmptyWhenCurrent ==
    TwoQuietCalls =>
        /\ TheValue(prev).shas = ShasOf(call.results)
        /\ (call.results = <<>>) <=> KnownIsCurrent

\* C3 witness: the second of two quiet calls returned, the known set held
\* the newest of three upstream commits, and both lists were empty.
C3_Witness ==
    /\ TwoQuietCalls /\ repo_exists /\ history = <<3, 2, 1>>
    /\ call.known_shas = {3}
    /\ TheValue(prev).shas = <<>> /\ call.results = <<>>

\* C4: with an empty known-SHA set and a stable upstream the pager asks for
\* pages 1, 2, 3, ... one after the other, every walk it begins ends, it
\* ends on the first page that holds no commit (a 404 included), and it
\* has then returned every commit of the listing.
C4_WalksToFirstEmptyPage ==
    /\ [][call'.page \in {call.page, call.page + 1} \/ call'.pc = "meta"]_vars
    /\ [](call.pc = "done" =>
            /\ call.page = FullPages(Upstream) + 1
            /\ ShasOf(call.results) = Reverse(Upstream))
    /\ (call.pc = "page") ~> (call.pc = "done")

\* C4 witness: three commits, two per page: the third page was empty and
\* all three commits were returned.
C4_Witness ==
    /\ call.pc = "done" /\ repo_exists /\ history = <<3, 2, 1>>
    /\ call.known_shas = {} /\ call.page = 3
    /\ ShasOf(call.results) = <<1, 2, 3>>

\* C5: an entry of the blob cache is never removed or overwritten, and the
\* last _get_line_count call for a cached blob returned the cached value.
C5_CacheOnlyGrows ==
    /\ [][\A b \in DOMAIN blob_cache :
             b \in DOMAIN blob_cache' /\ blob_cache'[b] = blob_cache[b]]_vars
    /\ [](call.blob_sha \in DOMAIN blob_cache => call.lines = blob_cache[call.blob_sha])

\* C5 witness: main.py's blob was requested once, for commit 2, and
\* answered from the cache for commit 1, with the same two lines.
C5_Witness ==
    /\ call.pc = "done" /\ blob_fetches[BlobMainPy] = 1
    /\ BlobMainPy \in DOMAIN blob_cache /\ blob_cache[BlobMainPy] = 2
    /\ \E i, j \in 1..Len(call.results) :
          /\ call.results[i].sha = 1 /\ call.results[i].total_lines = 2
          /\ call.results[j].sha = 2 /\ call.results[j].total_lines = 2

\* C6 as claimed: at most one blob request is issued per blob SHA.
C6_Claimed == \A b \in BlobShas : blob_fetches[b] <= 1

\* The responses the passive update handles: those of _get_json, _get,
\* _has_readme and _get_line_count.
PassiveResponse(r) == r.net = "ok" /\ r.via # "check_rate_limit"

\* C7: after a response handled by the HTTP client a tracker field whose
\* header was present holds the header's number; in the step that handles
\* the response a field whose header is absent keeps its value, and a known
\* field never turns unknown.
C7_TrackerFollowsHeaders ==
    /\ [](PassiveResponse(resp) =>
            /\ (resp.remaining = Some(<<5, 8>>) => requests_remaining = Some(58))
            /\ (resp.limit = Some(<<5, 0, 0, 0>>) => requests_limit = Some(5000)))
    /\ [][(call'.nreq = call.nreq + 1 /\ PassiveResponse(resp')) =>
            /\ (resp'.remaining = None => requests_remaining' = requests_remaining)
            /\ (resp'.limit = None => requests_limit' = requests_limit)
            /\ (requests_remaining # None => requests_remaining' # None)
            /\ (requests_limit # None => requests_limit' # None)]_vars

\* C7 witness: an error response that raised carried only the limit
\* header: the limit follows it, the remaining count is kept.
C7_Witness ==
    /\ call.pc = "failed" /\ resp.via = "_get_json" /\ resp.status = 403
    /\ resp.remaining = None /\ resp.limit = Some(<<5, 0, 0, 0>>)
    /\ requests_remaining = Some(59) /\ requests_limit = Some(5000)

\* A step of check_rate_limit (no analysis runs and none begins).
IsCheckStep ==
    /\ resp'.via = "check_rate_limit"
    /\ call.pc \in {"new", "idle", "done", "failed"}
    /\ call'.pc \in {"idle", "done", "failed"}

\* The explicit check failed: no response, a non-200 status, or a 200 body
\* without usable core-quota fields.
CheckFailed(r) ==
    /\ r.via = "check_rate_limit"
    /\ (r.net = "fail" \/ r.status # 200 \/ r.body \in {"unusable", "invalid"})

\* No exception leaves check_rate_limit: the constructor completes, and a
\* later check leaves the caller's state alone.
NothingEscapes ==
    IF call.pc = "new" THEN call' = [call EXCEPT !.pc = "idle"] ELSE call' = call

\* C8 as claimed: after a failed explicit check nothing escaped and the
\* tracker holds what it held before.
C8_Claimed ==
    [][(IsCheckStep /\ CheckFailed(resp')) =>
          /\ NothingEscapes
          /\ requests_remaining' = requests_remaining
          /\ requests_limit' = requests_limit]_vars

\* A tracker field after a failed check: kept when the attempt raised (no
\* response, or a body that is no JSON object); else the header's number
\* when the header is present; else kept after a non-200 status and
\* unknown after a 200 body without the fields.
AfterFailedCheck(old, header, number, r) ==
    IF r.net = "fail" \/ (r.status = 200 /\ r.body = "invalid") THEN old
    ELSE IF header # None THEN Some(number)
    ELSE IF r.status # 200 THEN old
    ELSE None

\* C8 amended: after a failed explicit check nothing escaped; the tracker
\* is kept when the attempt raised, and otherwise each field follows the
\* response's header, is kept (non-200) or becomes unknown (200 body
\* without the fields).
C8_FailedCheckOutcome ==
    [][(IsCheckStep /\ CheckFailed(resp')) =>
          /\ NothingEscapes
          /\ requests_remaining' =
                AfterFailedCheck(requests_remaining, resp'.remaining, 58, resp')
          /\ requests_limit' =
                AfterFailedCheck(requests_limit, resp'.limit, 5000, resp')]_vars

\* C8 witness: a tracker that knew 59 of 60 met a 403 on the explicit check
\* that carried only the limit header.
C8_Witness ==
    /\ resp.via = "check_rate_limit" /\ resp.status = 403
    /\ resp.remaining = None /\ resp.limit = Some(<<5, 0, 0, 0>>)
    /\ requests_remaining = Some(59) /\ requests_limit = Some(5000)
    /\ call.pc = "idle"

\* The required calls of analyze_commit_history, by the position that
\* issues them: metadata, languages, commit count, a commits page.
RequiredCalls == {"meta", "languages", "count", "page"}

\* C9: an error status (neither 2xx nor 404) on a required call ends the
\* call with that HTTP error and without a snapshot, and a failed call
\* issues no further request: the failing request is not repeated.
C9_ErrorAborts ==
    /\ [][(/\ call.pc \in RequiredCalls
           /\ call'.nreq = call.nreq + 1
           /\ resp'.net = "ok" /\ resp'.status \in {403, 500}) =>
            /\ call'.pc = "failed"
            /\ call'.snapshot = None
            /\ call'.error = Some([kind |-> "HTTPError", status |-> resp'.status])]_vars
    /\ [][call.pc = "failed" => (call'.nreq = call.nreq \/ call'.pc = "meta")]_vars
    /\ [](call.pc = "failed" => call.snapshot = None)

\* C9 witness: the second commits page answered 500 after the first page
\* had been collected; the call failed and returned nothing.
C9_Witness ==
    /\ call.pc = "failed" /\ call.page = 2 /\ Len(call.results) = 2
    /\ resp.via = "_get_json" /\ resp.status = 500
    /\ call.error = Some([kind |-> "HTTPError", status |-> 500])
    /\ call.snapshot = None

\* The snapshot of a repository that is absent throughout.
AbsentSnapshot ==
    [branch |-> "main", total_commits_at_snapshot |-> 0, languages |-> <<>>,
     readme_present |-> FALSE, commits |-> <<>>]

\* C10: a 404 never fails the call.  The step that receives it goes on with
\* the default of that request: branch "main", no languages, no README,
\* count 0, no commit from that page (and the snapshot is returned), no
\* files and no lines for that commit; a call against a repository absent
\* throughout returns the snapshot of defaults.
C10_AbsentIsNotAnError ==
    /\ [][(/\ call'.nreq = call.nreq + 1
           /\ resp'.net = "ok" /\ resp'.status = 404
           /\ call.pc \in {"meta", "languages", "readme", "count", "page", "tree"}) =>
            /\ call'.pc # "failed" /\ call'.error = None
            /\ (call.pc = "meta" => call'.branch = "main")
            /\ (call.pc = "languages" => call'.languages = <<>>)
            /\ (call.pc = "readme" => ~call'.readme_present)
            /\ (call.pc = "count" => call'.total_commits = 0)
            /\ (call.pc = "page" =>
                  /\ call'.pc = "done" /\ call'.snapshot # None
                  /\ Len(call'.results) = Len(call.results))
            /\ (call.pc = "tree" =>
                  /\ Len(call'.results) = Len(call.results) + 1
                  /\ \E i \in 1..Len(call'.results) :
                        call'.results[i] = [sha |-> call.commits[call.ci],
                                            total_lines |-> 0, total_files |-> 0])]_vars
    /\ []((call.pc = "done" /\ ~upstream_changed /\ ~repo_exists) =>
            call.snapshot = Some(AbsentSnapshot))

\* C10 witness: the repository vanished while a commit's tree was fetched
\* and came back; the call returned a snapshot that lists that commit with
\* no files.
C10_Witness ==
    /\ call.pc = "done" /\ call.branch = DefaultBranch /\ call.snapshot # None
    /\ \E i \in 1..Len(call.results) :
          call.results[i].total_files = 0 /\ call.results[i].total_lines = 0

\* The blob request failed: no response (network exception or timeout), a
\* status other than 200, a body that is no JSON, or content that is no
\* base64.
BlobFailed(r) ==
    r.net = "fail" \/ r.status # 200 \/ r.body \in {"badjson", "badb64"}

\* The lines the cache holds for the text blobs of tree[from..to].
RECURSIVE CachedLines(_, _, _, _)
CachedLines(tree, from, to, cache) ==
    IF from > to THEN 0
    ELSE LET item == tree[from]
             here == IF item.type = "blob" /\ ~IsBinary(item.path) /\ item.sha \in DOMAIN cache
                     THEN cache[item.sha] ELSE 0
         IN  here + CachedLines(tree, from + 1, to, cache)

\* C11: a blob request that fails adds nothing to the commit's line total
\* and raises nothing: the walk goes on to the next blob request with the
\* total it had plus what the cache answers, or the commit is emitted with
\* that total and the scan goes on to the next commit or the next page.
C11_BlobFailureCountsZero ==
    [][(/\ call.pc = "blob"
        /\ call'.nreq = call.nreq + 1
        /\ BlobFailed(resp')) =>
         /\ call'.error = None
         /\ call'.pc \in {"blob", "tree", "page"}
         /\ blob_cache' = blob_cache
         /\ IF call'.pc = "blob"
            THEN /\ call'.results = call.results
                 /\ call'.total_lines = call.total_lines
                       + CachedLines(call.tree, call.ti + 1, call'.ti - 1, blob_cache)
            ELSE call'.results = Append(call.results,
                    [sha |-> call.commits[call.ci],
                     total_lines |-> call.total_lines
                        + CachedLines(call.tree, call.ti + 1, Len(call.tree), blob_cache),
                     total_files |-> call'.total_files])]_vars

\* C11 witness: main.py's blob failed for commit 2, which is in the
\* snapshot with both files and no lines; the blob was requested again for
\* commit 1 and counted.
C11_Witness ==
    /\ call.pc = "done" /\ call.snapshot # None /\ Len(call.results) = 3
    /\ \E i, j \in 1..Len(call.results) :
          /\ call.results[i] = [sha |-> 2, total_lines |-> 0, total_files |-> 2]
          /\ call.results[j] = [sha |-> 1, total_lines |-> 2, total_files |-> 1]

\* The URL resolves to no (owner, repo).
Unresolved(repo_url) == parse_repo_from_url(repo_url).kind # "pair"

\* C12: a call whose URL does not resolve ends at once with the ValueError
\* of an invalid URL: it issued no request, called no progress callback,
\* and left the rate-limit tracker and the blob cache as they were.
C12_InvalidUrlFailsFast ==
    /\ [][(/\ call.pc \in {"idle", "done", "failed"}
           /\ call' # call
           /\ Unresolved(call'.repo_url)) =>
            /\ tracker' = tracker
            /\ blob_cache' = blob_cache
            /\ blob_fetches' = blob_fetches
            /\ resp' = resp]_vars
    /\ []((call.pc \notin {"new", "idle"} /\ Unresolved(call.repo_url)) =>
            /\ call.pc = "failed"
            /\ call.error = Some([kind |-> "ValueError", status |-> 0])
            /\ call.snapshot = None
            /\ call.nreq = 0
            /\ call.progress = <<>>)

\* C12 witness: after an analysis that filled the cache, a call with a
\* text that holds no slash failed without a request.
C12_Witness ==
    /\ call.pc = "failed" /\ call.repo_url = <<"see", " ", "now">>
    /\ call.error = Some([kind |-> "ValueError", status |-> 0])
    /\ call.nreq = 0 /\ call.progress = <<>>
    /\ BlobMainPy \in DOMAIN blob_cache /\ requests_remaining = Some(59)
    /\ resp.via = "_get_json"

\* The line count of each blob the upstream serves, and of the text files
\* of a tree; the number of files of a tree.
TrueLines(blob_sha) ==
    CASE blob_sha = BlobMainPy -> 2
      [] blob_sha = BlobEmpty  -> 0
      [] blob_sha = BlobNul    -> 0
      [] blob_sha = BlobLogo   -> 0
      [] blob_sha = BlobBig    -> 2

RECURSIVE TextLines(_)
TextLines(tree) ==
    IF tree = <<>> THEN 0
    ELSE (IF tree[1].type = "blob" /\ ~IsBinary(tree[1].path) THEN TrueLines(tree[1].sha) ELSE 0)
         + TextLines(Tail(tree))

FileCount(tree) == Cardinality({i \in 1..Len(tree) : tree[i].type = "blob"})

\* The entry of a commit whose tree and blobs were all served.
TrueEntry(sha) ==
    [sha |-> sha, total_lines |-> TextLines(TreeOf(sha)), total_files |-> FileCount(TreeOf(sha))]

\* The snapshot of a call that found the upstream holding still and the
\* server well-behaved, but for the README probe.
TrueSnapshot(known) ==
    LET new == Reverse(BeforeFirstKnown(Upstream, known))
    IN  [branch |-> IF repo_exists THEN DefaultBranch ELSE "main",
         total_commits_at_snapshot |-> Len(Upstream),
         languages |-> IF repo_exists
                       THEN <<[lang |-> "Python", pct |-> 75], [lang |-> "JavaScript", pct |-> 25]>>
                       ELSE <<>>,
         commits |-> [i \in 1..Len(new) |-> TrueEntry(new[i])]]

WithoutReadme(snapshot) ==
    [branch |-> snapshot.branch,
     total_commits_at_snapshot |-> snapshot.total_commits_at_snapshot,
     languages |-> snapshot.languages,
     commits |-> snapshot.commits]

\* C13: the percentages a call has passed to its progress callback lie in
\* 0..100 and never decrease; a call that returned passed 100 last; and the
\* snapshot is the one the upstream determines, with a callback or without.
C13_ProgressIsASideChannel ==
    /\ \A i \in 1..Len(call.progress) :
          /\ call.progress[i] \in 0..100
          /\ i > 1 => call.progress[i - 1] <= call.progress[i]
    /\ ~call.progress_cb => call.progress = <<>>
    /\ (call.pc = "done" /\ call.progress_cb) =>
          (call.progress # <<>> /\ call.progress[Len(call.progress)] = 100)
    /\ call.pc = "done" =>
          (call.snapshot # None /\ WithoutReadme(TheValue(call.snapshot)) = TrueSnapshot(call.known_shas))

\* C13 witness: a call over six pages of commits reported 20, 50, a
\* percentage per page up to the cap of 95, then 100; and a call without a
\* callback returned a snapshot of all the commits.
C13_Witness ==
    /\ call.pc = "done" /\ call.progress_cb
    /\ call.progress = <<20, 50, 60, 70, 80, 90, 95, 95, 100>>
    /\ Len(call.results) = LongHistory

IsPrefix(a, b) == Len(a) <= Len(b) /\ SubSeq(b, 1, Len(a)) = a

\* C14: no step removes or changes a row of a worksheet, and the step in
\* which a run fails leaves every worksheet as it was: the rows of the
\* repositories processed before the failing one stay in place.
C14_FailureKeepsEarlierRows ==
    /\ [][\A team \in Teams : IsPrefix(sheets[team], sheets'[team])]_vars
    /\ [][(worker.pc # "ended" /\ worker'.pc = "ended" /\ worker'.signals = <<"failed">>) =>
             sheets' = sheets]_vars

\* C14 witness: in the first cycle the rows of team alpha were appended,
\* then the analysis of the second repository failed on a 500.
C14_Witness ==
    /\ worker.pc = "ended" /\ worker.signals = <<"failed">>
    /\ worker.cycle = 1 /\ worker.k = 2
    /\ call.pc = "failed" /\ call.error = Some([kind |-> "HTTPError", status |-> 500])
    /\ \E i \in 1..Len(sheets["alpha"]) : sheets["alpha"][i].commit # 0
    /\ sheets["beta"] = <<>>

\* C15: a run that began ends; a run that has not ended has emitted no
\* terminal signal; a run that ended has emitted exactly one, `failed` with
\* the error of the step that raised or `finished` when none raised; and
\* nothing is emitted after the end of a run.
C15_OneTerminalSignal ==
    /\ [](worker.pc \notin {"off", "ended"} => worker.signals = <<>>)
    /\ [](worker.pc = "ended" =>
            \/ worker.signals = <<"failed">> /\ worker.error # None
            \/ /\ worker.signals = <<"finished">> /\ worker.error = None
               /\ call.pc \in {"idle", "done"} /\ worker.k > Len(worker.subs))
    /\ []((worker.pc = "ended" /\ call.pc = "failed") => worker.signals = <<"failed">>)
    /\ [][(worker.pc = "ended" /\ worker'.cycle = worker.cycle) => worker' = worker]_vars
    /\ (worker.pc \notin {"off", "ended"}) ~> (worker.pc = "ended")

\* C15 witness: the second cycle ended with `finished` after both teams'
\* worksheets were written.
C15_Witness ==
    /\ worker.pc = "ended" /\ worker.signals = <<"finished">> /\ worker.cycle = 2
    /\ sheets["alpha"] # <<>> /\ sheets["beta"] # <<>>

\* The commits whose rows a worksheet holds.
PersistedShas(sheet) == {sheet[i].commit : i \in 1..Len(sheet)} \ {0}

\* C16 as claimed: while the worker waits for a team's snapshot, the
\* known-SHA set of the call holds the SHA of every commit whose row the
\* team's worksheet holds.
C16_Claimed ==
    worker.pc = "analyze" =>
        PersistedShas(sheets[worker.subs[worker.k].team]) \subseteq call.known_shas

\* The written forms the claim lists for owner o and repository r: the
\* HTTPS URL, the HTTPS URL with ".git", the SSH form, the bare name, and
\* a GitHub URL inside prose.
ValidForms(o, r) ==
    {HttpsUrl(o, r), HttpsGitUrl(o, r), SshUrl(o, r), BareName(o, r),
     UrlInProse(o, r), UrlEndingSentence(o, r), GitUrlInProse(o, r), UrlThenProse(o, r)}

\* C17 as claimed: a call with any valid written form of o/r is a call for
\* the owner o and the repository r.
C17_Claimed ==
    \A o \in Owners, r \in Repos :
        (call.pc \notin {"new", "idle"} /\ call.repo_url \in ValidForms(o, r)) =>
            (call.owner = <<o>> /\ call.repo = <<r>>)

\* The malformed inputs the claim lists: the empty text, texts without a
\* slash, and texts with a host other than github.com and no embedded
\* github.com pattern.
MalformedTexts ==
    {<<>>, <<" ">>, <<"see">>, <<"see", " ", "now">>,
     <<"https", ":", "/", "/", "gitlab.com", "/", "octo", "/", "repo">>,
     <<"gitlab.com", "/", "octo", "/", "repo">>,
     <<"git@", "gitlab.com", ":", "octo", "/", "repo", ".git">>,
     <<"see", " ", "gitlab.com", "/", "octo", "/", "repo">>}

\* C18 as claimed: a call with a malformed input fails with the ValueError
\* of an invalid URL.
C18_Claimed ==
    (call.pc \notin {"new", "idle"} /\ call.repo_url \in MalformedTexts) =>
        (call.pc = "failed" /\ call.error = Some([kind |-> "ValueError", status |-> 0]))

\* C19: the count is taken from the one-commit-per-page response alone:
\* 0 on a 404, the last page N of the Link header when the listing has
\* several pages, 1 when it has one; the rest of the call leaves it alone
\* and the snapshot carries it, however many commits the pager returned.
C19_CountFromOnePerPageRequest ==
    /\ [][(call.pc = "count" /\ call'.pc = "page") =>
            /\ resp'.status = 404 => call'.total_commits = 0
            /\ (resp'.status = 200 /\ Len(history) >= 2) => call'.total_commits = Len(history)
            /\ (resp'.status = 200 /\ Len(history) = 1) => call'.total_commits = 1]_vars
    /\ [][call.pc \in {"page", "tree", "blob"} => call'.total_commits = call.total_commits]_vars
    /\ [](call.pc = "done" =>
            TheValue(call.snapshot).total_commits_at_snapshot = call.total_commits)

\* C19 witness: of three upstream commits two were known; the snapshot
\* counts three and lists one.
C19_Witness ==
    /\ call.pc = "done" /\ ~upstream_changed /\ Len(history) = 3
    /\ TheValue(call.snapshot).total_commits_at_snapshot = 3
    /\ Len(TheValue(call.snapshot).commits) = 1
    /\ call.known_shas = {2}

\* C20: while the upstream holds still and exists, every commit a call has
\* recorded counts the blob entries of its recursive tree as its files,
\* binary ones included, and as its lines the lines of the blobs that are
\* text by extension, a blob with a NUL byte among its first 1024 bytes
\* counting 0 and one whose first NUL byte comes later counting its lines.
C20_FilesAndLinesOfTree ==
    (~upstream_changed /\ repo_exists /\ call.pc \notin {"new", "idle", "failed"}) =>
        \A i \in 1..Len(call.results) :
            /\ call.results[i].total_files = FileCount(TreeOf(call.results[i].sha))
            /\ call.results[i].total_lines = TextLines(TreeOf(call.results[i].sha))

\* C20 witness: the commit with a picture, a text-named file with an early
\* NUL byte and an empty file was recorded with three files and no line,
\* and the commit with a picture and a file whose first NUL byte is byte
\* 1025 with two files and the two lines of that file.
C20_Witness ==
    /\ call.pc = "done" /\ ~upstream_changed /\ repo_exists
    /\ \E i, j \in 1..Len(call.results) :
          /\ call.results[i].sha = 3
          /\ call.results[i].total_files = 3 /\ call.results[i].total_lines = 0
          /\ call.results[j].sha = 4
          /\ call.results[j].total_files = 2 /\ call.results[j].total_lines = 2
    /\ IsBinary(TreeOf(3)[1].path) /\ ~IsBinary(TreeOf(3)[2].path)
    /\ IsBinaryContent(BlobBytes(BlobNul)) /\ ~IsBinaryContent(BlobBytes(BlobBig))

\* The scan of the call stands at a commit of the known set.
MetKnown ==
    /\ call.pc \notin {"new", "idle"}
    /\ call.ci \in 1..Len(call.commits)
    /\ call.commits[call.ci] \in call.known_shas

\* C21: the commit whose tree or blobs the call requests is never a known
\* one; a call whose scan met a known commit has returned in that very
\* step, having recorded only commits newer than the one it met; and a call
\* that returned issues no request.
C21_StopsAtFirstKnown ==
    /\ [](call.pc \in {"tree", "blob"} => call.commits[call.ci] \notin call.known_shas)
    /\ [](MetKnown =>
            /\ call.pc = "done"
            /\ \A i \in 1..Len(call.results) : call.results[i].sha > call.commits[call.ci])
    /\ [][(call.pc = "done" /\ call' # call) => call'.nreq = 0]_vars

\* C21 witness: of three commits the second was known; the call met it on
\* the first page, recorded the third alone and never asked for the second
\* page, on which the first commit is listed.
C21_Witness ==
    /\ MetKnown /\ ~upstream_changed /\ repo_exists
    /\ Len(history) = 3 /\ call.known_shas = {2}
    /\ call.commits[call.ci] = 2 /\ call.page = 1 /\ FullPages(Upstream) = 2
    /\ ShasOf(call.results) = <<3>>

\* C22 as claimed: a README probe that got no response counts as an absent
\* README, and the call goes on to the commit count.
C22_Claimed ==
    [][(call.pc = "readme" /\ call'.nreq = call.nreq + 1 /\ resp'.net = "fail") =>
          (call'.pc = "count" /\ ~call'.readme_present)]_vars

\* C23 as claimed: with the tracker at zero remaining requests, a request
\* of the analysis that the server rejects with a 403 ends the call with
\* that HTTP error.
C23_Claimed ==
    [][(/\ requests_remaining = Some(0)
        /\ call.pc \in {"meta", "languages", "readme", "count", "page", "tree", "blob"}
        /\ call'.nreq = call.nreq + 1
        /\ resp'.net = "ok" /\ resp'.status = 403) =>
          /\ call'.pc = "failed"
          /\ call'.error = Some([kind |-> "HTTPError", status |-> 403])]_vars

\* C24 as claimed: the commits a call has recorded, and the list it returns,
\* hold no SHA twice.
C24_Claimed ==
    \A i, j \in 1..Len(call.results) :
        call.results[i].sha = call.results[j].sha => i = j

\* The data rows of a worksheet, and the commits they describe, in order.
IsDataRow(r) == r.commit # 0

CommitsOfRows(sheet) ==
    LET rows == SelectSeq(sheet, IsDataRow)
    IN  [i \in 1..Len(rows) |-> rows[i].commit]

\* C27: when a cycle has appended a team's rows, the data rows of the
\* team's worksheet describe the commits of the upstream branch, oldest
\* first and each once; and no worksheet ever holds two data rows of one
\* commit.
C27_OneRowPerCommit ==
    /\ [][(worker.pc = "analyze" /\ call.pc = "done" /\ sheets' # sheets) =>
            CommitsOfRows(sheets'[worker.subs[worker.k].team]) = Reverse(Upstream)]_vars
    /\ [](\A team \in Teams :
            LET commits == CommitsOfRows(sheets[team])
            IN  \A i, j \in 1..Len(commits) : commits[i] = commits[j] => i = j)

\* C27 witness: the second cycle ended well after the upstream had grown
\* from one commit to three; the worksheet holds the row of the first
\* commit from the first cycle and the rows of the other two from the second.
C27_Witness ==
    /\ worker.pc = "ended" /\ worker.signals = <<"finished">> /\ worker.cycle = 2
    /\ repo_exists /\ Len(history) = 3
    /\ CommitsOfRows(sheets["alpha"]) = <<1, 2, 3>>
    /\ Len(sheets["alpha"]) = 5
    /\ sheets["alpha"][2].c1 = SnoText(1)
    /\ sheets["alpha"][4].c1 = SnoText(2) /\ sheets["alpha"][5].c1 = SnoText(3)

\* The worker threads that run.
RunningWorkers ==
    window.orphans + (IF worker.pc \notin {"off", "ended"} THEN 1 ELSE 0)

\* C25 as claimed: at most one worker runs, and a worker is started only
\* when the worker started before it has ended.
C25_Claimed ==
    /\ [](RunningWorkers <= 1)
    /\ [][worker'.cycle # worker.cycle => worker.pc \in {"off", "ended"}]_vars

\* C26 as claimed: since start() with S seconds `triggered` was emitted at
\* once and then every S ticks, the countdown shown lies in 0..S, and a
\* stopped scheduler emits no `triggered`.
C26_Claimed ==
    /\ [](scheduler.active =>
            /\ scheduler.triggers[1] = 0
            /\ \A i \in 2..Len(scheduler.triggers) :
                  scheduler.triggers[i] - scheduler.triggers[i - 1] = window.interval
            /\ scheduler.shown \in 0..window.interval)
    /\ [][(~scheduler.active /\ ~scheduler'.active) =>
            scheduler'.triggers = scheduler.triggers]_vars

====
